---- MODULE Spec2Model ----
(***************************************************************************)
(* Model of the inline-Svelte rewriter plugin (src/src/lib/plugin/index.ts) *)
(* as a state machine: one plugin instance with its process-wide cache and  *)
(* the three hooks the host calls (transform, resolveId, load).             *)
(*                                                                         *)
(* Text is a sequence of lexical tokens.  A token is <<kind, arg>>: kind is *)
(* the token's spelling, arg is <<>> for a token of the input and the two   *)
(* 16-bit halves of a content hash for a generated token (Inline_hash, the  *)
(* virtual path of a hash).  Two adjacent tokens are separated by one blank *)
(* where the host language needs one; line breaks (NL) and indentation (SP) *)
(* are tokens of their own, BT is the backtick, FS and FE are the           *)
(* configured fence delimiters.  JavaScript offsets count from 0; positions *)
(* below count tokens from 1.                                               *)
(***************************************************************************)
EXTENDS Integers, Sequences, FiniteSets, TLC

(* ------------------------------ tokens -------------------------------- *)

W(s) == <<s, <<>>>>
Txt(ss) == [i \in DOMAIN ss |-> W(ss[i])]
G(s, h) == <<s, h>>

NL == W("NL")
Tags == {"html", "svelte"}
Keywords == {"const", "let", "var"}
ComponentIds == {"A", "B", "C", "D"}
ValueIds == {"x", "y", "z", "$s"}
\* spellings made only of [a-zA-Z0-9_$]
WordKinds ==
  ComponentIds \cup ValueIds \cup Keywords \cup Tags
    \cup {"import", "from", "export", "0", "1", "t", "u", "15464", "29393"}
\* <script ...> opening tags of the markup language
ScriptOpenKinds ==
  {"<script>", "<script module>", "<script context=\"module\">",
   "<script lang=\"ts\" module>", "<script lang=\"ts\">"}
\* spellings with a '<' in them
LtKinds ==
  ScriptOpenKinds \cup {"</script>", "<", "<h1>", "</h1>", "<p>", "</p>"}
\* spellings with a '=' or a ';' in them
EqSemiKinds ==
  {"=", ";", "<script context=\"module\">", "<script lang=\"ts\" module>",
   "<script lang=\"ts\">"}
StringKinds == {"'m'", "'n'", "virt"}
Kinds ==
  <<"NL", "SP", "FS", "FE", "BT", "=", ";", "{", "}", "[", "]", "(", ")",
    ",", ".", ":", "/>", "*", "as", "Object.assign", ".default", "Inline",
    "__InlineNS", "virt", "'m'", "'n'", "<", "<h1>", "</h1>", "<p>", "</p>",
    "</script>", "<script>", "<script module>", "<script context=\"module\">",
    "<script lang=\"ts\" module>", "<script lang=\"ts\">",
    "const", "let", "var", "html", "svelte", "import", "from", "export",
    "0", "1", "t", "u", "A", "B", "C", "D", "x", "y", "z", "$s",
    "15464", "29393", "=>">>

IsWS(t) == t[1] \in {"NL", "SP"}
IsWord(t) == t[1] \in WordKinds \/ t[1] \in {"Inline", "__InlineNS", "as"}

Min(S) == CHOOSE a \in S : \A b \in S : a <= b
Max(S) == CHOOSE a \in S : \A b \in S : a >= b

\* String.prototype.indexOf, slice and friends on token sequences
Slice(s, i, j) == IF i > j THEN <<>> ELSE SubSeq(s, i, j)
From(s, i) == Slice(s, i, Len(s))
SkipWS(s, i) ==
  LET S == {j \in i..Len(s) : ~IsWS(s[j])}
  IN IF S = {} THEN Len(s) + 1 ELSE Min(S)
IndexOfKind(s, k, i) ==
  LET S == {j \in i..Len(s) : s[j][1] = k}
  IN IF S = {} THEN 0 ELSE Min(S)
Trim(s) ==
  LET S == {j \in 1..Len(s) : ~IsWS(s[j])}
  IN IF S = {} THEN <<>> ELSE SubSeq(s, Min(S), Max(S))
RECURSIVE Concat(_)
Concat(ss) == IF ss = <<>> THEN <<>> ELSE Head(ss) \o Concat(Tail(ss))
RECURSIVE Join(_, _)
Join(ss, sep) ==
  IF ss = <<>> THEN <<>>
  ELSE IF Len(ss) = 1 THEN ss[1]
  ELSE ss[1] \o sep \o Join(Tail(ss), sep)
Contains(s, sub) ==
  \E i \in 1..(Len(s) - Len(sub) + 1) : SubSeq(s, i, i + Len(sub) - 1) = sub
\* position of an element in an array, Array.prototype.indexOf (0 if absent)
ArrIndex(arr, e) ==
  LET S == {i \in 1..Len(arr) : arr[i] = e} IN IF S = {} THEN 0 ELSE Min(S)
InArr(arr, e) == \E i \in 1..Len(arr) : arr[i] = e
Range(arr) == {arr[i] : i \in 1..Len(arr)}

(* --------------------------- content hash ----------------------------- *)

\* The first 8 hex digits of the SHA-1 digest of the markup, kept as two
\* 16-bit halves.  SHA-1 itself is replaced by a 32-bit
\* multiplicative hash over the token codes (a deterministic function of the
\* text with the same width).
HashHalf == 16 ^ 4
KindCode(k) == CHOOSE i \in 1..Len(Kinds) : Kinds[i] = k
TokCode(t) ==
  IF t[2] = <<>> THEN KindCode(t[1])
  ELSE (KindCode(t[1]) + 7 * t[2][1] + 13 * t[2][2]) % HashHalf
HashStep(h, c) ==
  LET lo == h[2] * 257 + c
      hi == h[1] * 257 + (lo \div HashHalf)
  IN <<hi % HashHalf, lo % HashHalf>>
\* the hash state after the tokens lo..hi of s, from state h (the range is
\* halved, so that the evaluation stays shallow on long texts)
RECURSIVE HashFrom(_, _, _, _)
HashFrom(h, s, lo, hi) ==
  IF lo > hi THEN h
  ELSE IF lo = hi THEN HashStep(h, TokCode(s[lo]))
  ELSE LET mid == (lo + hi) \div 2
           left == HashFrom(h, s, lo, mid)
       IN IF left[1] >= 0 THEN HashFrom(left, s, mid + 1, hi) ELSE left
digest(markup) == HashFrom(<<0, 7>>, markup, 1, Len(markup))
\* slice(0, 8) keeps 32 bits of the SHA-1 digest, so distinct texts can have
\* one hash: the digests of <p>15464</p> and of <p>29393</p> both begin with
\* b6aba2b1.  The digest above is a stand-in that tells the other texts of
\* the model apart; Hash gives it that one coincidence of the real digest.
TwinA == Txt(<<"<p>", "15464", "</p>">>)
TwinB == Txt(<<"<p>", "29393", "</p>">>)
Hash(markup) == IF markup = TwinB THEN digest(TwinA) ELSE digest(markup)

(* ---------------------------- the Injector ---------------------------- *)

\* scriptRE: a script opening tag whose attributes do not hold
\* context = module in quotes
IsScriptRE(t) == t[1] \in ScriptOpenKinds /\ t[1] # "<script context=\"module\">"

applySharedCode(markup, code) ==
  IF code = <<>> THEN markup
  ELSE LET S == {i \in 1..Len(markup) : IsScriptRE(markup[i])}
       IN IF S # {}
          THEN LET idx == Min(S)
               IN Slice(markup, 1, idx) \o <<NL>> \o code \o <<NL>>
                    \o From(markup, idx + 1)
          ELSE Txt(<<"<script>", "NL">>) \o code
                 \o Txt(<<"NL", "</script>", "NL">>) \o markup

(* ----------------------- dependency closure --------------------------- *)

\* A dependency graph maps a name to the array of its direct dependencies
\* (a JavaScript Set iterates in insertion order).  One turn of the while
\* loop of getTransitiveDependencies on the pair <<resolved, queue>>.
GraphGet(graph, n) == IF n \in DOMAIN graph THEN graph[n] ELSE <<>>
\* a faulty turn that follows only the first dependency of a name, against
\* which C10 is seen to depend on the inner for loop
ClosureStepFirstOnly(st, graph) ==
  LET current == Head(st.queue)
      deps == GraphGet(graph, current)
  IN IF current \in st.resolved
     THEN [resolved |-> st.resolved, queue |-> Tail(st.queue)]
     ELSE [resolved |-> st.resolved \cup {current},
           queue |-> Tail(st.queue)
                      \o (IF deps = <<>> THEN <<>> ELSE <<Head(deps)>>)]
ClosureStep(st, graph) ==
  LET current == Head(st.queue)
  IN IF current \in st.resolved
     THEN [resolved |-> st.resolved, queue |-> Tail(st.queue)]
     ELSE [resolved |-> st.resolved \cup {current},
           queue |-> Tail(st.queue) \o GraphGet(graph, current)]
RECURSIVE ClosureLoop(_, _)
ClosureLoop(st, graph) ==
  IF st.queue = <<>> THEN st.resolved
  ELSE ClosureLoop(ClosureStep(st, graph), graph)
\* entryPoints is an array (the Set's insertion order)
getTransitiveDependencies(entryPoints, graph) ==
  ClosureLoop([resolved |-> {}, queue |-> entryPoints], graph)

(* ------------------------- pattern matching --------------------------- *)

\* ^ under the m flag: the start of the text or just after a line break
LineStart(s, i) == i = 1 \/ s[i - 1] = NL
KindAt(s, i) == IF i >= 1 /\ i <= Len(s) THEN s[i][1] ELSE "EOF"

\* fenceRE (start delimiter, lazily anything, end delimiter; no g flag),
\* exec from offset 0: the first start delimiter that an end delimiter
\* follows, closed by the first end delimiter after it.
NoFence == [found |-> FALSE, index |-> 0, end |-> 0, content |-> <<>>]
fenceExec(code) ==
  LET S == {i \in 1..Len(code) :
              code[i][1] = "FS" /\ IndexOfKind(code, "FE", i + 1) # 0}
  IN IF S = {} THEN NoFence
     ELSE LET i == Min(S)
              j == IndexOfKind(code, "FE", i + 1)
          IN [found |-> TRUE, index |-> i, end |-> j + 1,
              content |-> Slice(code, i + 1, j - 1)]

\* tplRE (a tag, optional white space, a backtick, lazily anything, a
\* backtick; flag g): one exec with lastIndex = from.  end is the new
\* lastIndex (exclusive).
TplAt(s, i) ==
  /\ KindAt(s, i) \in Tags
  /\ KindAt(s, SkipWS(s, i + 1)) = "BT"
  /\ IndexOfKind(s, "BT", SkipWS(s, i + 1) + 1) # 0
tplExec(s, from) ==
  LET S == {i \in from..Len(s) : TplAt(s, i)}
  IN IF S = {} THEN [found |-> FALSE, index |-> 0, end |-> 0, body |-> <<>>]
     ELSE LET i == Min(S)
              b == SkipWS(s, i + 1)
              c == IndexOfKind(s, "BT", b + 1)
          IN [found |-> TRUE, index |-> i, end |-> c + 1,
              body |-> Slice(s, b + 1, c - 1)]

\* globalDefRE (flags gm): at a line start the word const, white space, a
\* name, an equals sign, a tag and a backtick-quoted text
GlobalDefAt(s, i) ==
  LET n == SkipWS(s, i + 1)
      e == SkipWS(s, n + 1)
      t == SkipWS(s, e + 1)
      b == SkipWS(s, t + 1)
  IN /\ LineStart(s, i)
     /\ KindAt(s, i) = "const"
     /\ KindAt(s, n) \in WordKinds
     /\ KindAt(s, e) = "="
     /\ KindAt(s, t) \in Tags
     /\ KindAt(s, b) = "BT"
     /\ IndexOfKind(s, "BT", b + 1) # 0
GlobalDefMatch(s, i) ==
  LET n == SkipWS(s, i + 1)
      b == SkipWS(s, SkipWS(s, SkipWS(s, n + 1) + 1) + 1)
      c == IndexOfKind(s, "BT", b + 1)
  IN [index |-> i, end |-> c + 1, name |-> s[n][1],
      markup |-> Slice(s, b + 1, c - 1), text |-> Slice(s, i, c)]
\* fenceContent.matchAll(globalDefRE): the matches from left to right
RECURSIVE GlobalDefMatches(_, _)
GlobalDefMatches(s, from) ==
  LET S == {i \in from..Len(s) : GlobalDefAt(s, i)}
  IN IF S = {} THEN <<>>
     ELSE LET m == GlobalDefMatch(s, Min(S))
          IN <<m>> \o GlobalDefMatches(s, m.end)
\* replace(globalDefRE, empty): the text without the matched spans
RECURSIVE RemoveSpans(_, _, _)
RemoveSpans(s, ms, from) ==
  IF ms = <<>> THEN From(s, from)
  ELSE Slice(s, from, ms[1].index - 1) \o RemoveSpans(s, Tail(ms), ms[1].end)

\* the import pattern of lines 142, 221 and 259: the word import, lazily
\* anything up to the first from that a quoted string follows, and one
\* optional semicolon (flag g)
ImportEndAt(s, i) ==
  LET S == {j \in (i + 1)..Len(s) :
              s[j][1] = "from" /\ KindAt(s, SkipWS(s, j + 1)) \in StringKinds}
  IN IF KindAt(s, i) # "import" \/ S = {} THEN 0
     ELSE LET q == SkipWS(s, Min(S) + 1)
          IN IF KindAt(s, q + 1) = ";" THEN q + 2 ELSE q + 1
RECURSIVE ImportMatches(_, _)
ImportMatches(s, from) ==
  LET S == {i \in from..Len(s) : ImportEndAt(s, i) # 0}
  IN IF S = {} THEN <<>>
     ELSE LET i == Min(S)
          IN <<[index |-> i, end |-> ImportEndAt(s, i)]>>
               \o ImportMatches(s, ImportEndAt(s, i))
MatchTexts(s, ms) == [k \in 1..Len(ms) |-> Slice(s, ms[k].index, ms[k].end - 1)]

\* The test of a word-boundary pattern built from a name.  The name goes
\* into the pattern unescaped, so a dollar sign in it is the end-of-input
\* assertion and a name that starts with one matches nowhere.
RefRE(name, content) ==
  /\ name # "$s"
  /\ \E i \in 1..Len(content) : content[i] = W(name)

\* replace(match[0], empty): the text without the first occurrence of sub
RemoveFirst(s, sub) ==
  LET S == {i \in 1..(Len(s) - Len(sub) + 1) :
              SubSeq(s, i, i + Len(sub) - 1) = sub}
  IN IF S = {} \/ sub = <<>> THEN s
     ELSE Slice(s, 1, Min(S) - 1) \o From(s, Min(S) + Len(sub))

(* ------------------------ the definitions fence ----------------------- *)

\* startOfDeclRegex (flags gm): at a line start one of const, let, var,
\* white space and a name; one exec with lastIndex = from
DeclAt(s, i) ==
  /\ LineStart(s, i)
  /\ KindAt(s, i) \in Keywords
  /\ KindAt(s, SkipWS(s, i + 1)) \in WordKinds
declExec(s, from) ==
  LET S == {i \in from..Len(s) : DeclAt(s, i)}
  IN IF S = {} THEN [found |-> FALSE, index |-> 0, end |-> 0, name |-> ""]
     ELSE LET i == Min(S)
          IN [found |-> TRUE, index |-> i, end |-> SkipWS(s, i + 1) + 1,
              name |-> s[SkipWS(s, i + 1)][1]]

\* The for loop of lines 119-131: the position after the first ';' met at
\* depth zero of all three kinds of bracket, 0 when there is none (-1 in the
\* source).  The depth before position i is the number of opening minus the
\* number of closing brackets in startIndex..i-1.
CountKind(s, k, i, j) == Cardinality({p \in i..j : s[p][1] = k})
DepthBefore(s, open, close, startIndex, i) ==
  CountKind(s, open, startIndex, i - 1) - CountKind(s, close, startIndex, i - 1)
\* the scan without its three depth counters: a faulty variant, against
\* which C24 is seen to depend on them
scanEndAnyDepth(s, startIndex) ==
  LET S == {i \in startIndex..Len(s) : s[i][1] = ";"}
  IN IF S = {} THEN 0 ELSE Min(S) + 1
scanEnd(s, startIndex) ==
  LET S == {i \in startIndex..Len(s) :
              /\ s[i][1] = ";"
              /\ DepthBefore(s, "{", "}", startIndex, i) = 0
              /\ DepthBefore(s, "[", "]", startIndex, i) = 0
              /\ DepthBefore(s, "(", ")", startIndex, i) = 0}
  IN IF S = {} THEN 0 ELSE Min(S) + 1
\* a faulty variant of the fallback of lines 132-135: the newline is looked
\* for from the start of the text, not from startIndex
declEndFirstNewline(s, startIndex) ==
  LET endIndex == scanEnd(s, startIndex)
      nextNewline == IndexOfKind(s, "NL", 1)
  IN IF endIndex # 0 THEN endIndex
     ELSE IF nextNewline # 0 THEN nextNewline ELSE Len(s) + 1
\* endIndex of the declaration that starts at startIndex (exclusive)
declEnd(s, startIndex) ==
  LET endIndex == scanEnd(s, startIndex)
      nextNewline == IndexOfKind(s, "NL", startIndex)
  IN IF endIndex # 0 THEN endIndex
     ELSE IF nextNewline # 0 THEN nextNewline ELSE Len(s) + 1

\* A JavaScript Map of names to texts, as the array of its entries in
\* insertion order
MapHas(m, k) == \E i \in 1..Len(m) : m[i].name = k
MapGet(m, k) == IF MapHas(m, k) THEN m[CHOOSE i \in 1..Len(m) : m[i].name = k].def ELSE <<>>
MapSet(m, k, v) ==
  IF MapHas(m, k)
  THEN [i \in 1..Len(m) |-> IF m[i].name = k THEN [name |-> k, def |-> v] ELSE m[i]]
  ELSE Append(m, [name |-> k, def |-> v])
MapKeys(m) == [i \in 1..Len(m) |-> m[i].name]
\* new Set(array) as the array of its distinct elements in insertion order
RECURSIVE SetOf(_)
SetOf(arr) ==
  IF arr = <<>> THEN <<>>
  ELSE LET r == SetOf(Slice(arr, 1, Len(arr) - 1))
       IN IF InArr(r, arr[Len(arr)]) THEN r ELSE Append(r, arr[Len(arr)])

\* The while loop of lines 110-139 over nonComponentCode
RECURSIVE declLoop(_, _, _, _)
declLoop(s, from, compNames, defs) ==
  LET declMatch == declExec(s, from)
  IN IF ~declMatch.found THEN defs
     ELSE IF InArr(compNames, declMatch.name)
          THEN declLoop(s, declMatch.end, compNames, defs)
     ELSE LET endIndex == declEnd(s, declMatch.index)
              definition == Trim(Slice(s, declMatch.index, endIndex - 1))
          IN declLoop(s, endIndex, compNames,
                      IF definition # <<>>
                      THEN MapSet(defs, declMatch.name, definition) ELSE defs)

\* depGraph (lines 148-158): each shared name with the other shared names
\* its text mentions, in the order of allGlobalNames
depsOf(name, content, allGlobalNames) ==
  SelectSeq(allGlobalNames, LAMBDA d : d # name /\ RefRE(d, content))

(* ---------------------- ordering the components ----------------------- *)

\* the comparator of lines 160-166
sortCompare(a, b, graph, all) ==
  IF b \in getTransitiveDependencies(<<a>>, graph) THEN 1
  ELSE IF a \in getTransitiveDependencies(<<b>>, graph) THEN -1
  ELSE ArrIndex(all, a) - ArrIndex(all, b)

\* Array.prototype.sort as the engine runs it on an array shorter than 64
\* (V8's TimSort, one run): count the initial run, reverse it when it is
\* strictly descending, then insert the remaining elements by binary search.
RECURSIVE runLength(_, _, _, _, _)
runLength(arr, idx, isDescending, graph, all) ==
  IF idx > Len(arr) THEN Len(arr)
  ELSE LET order == sortCompare(arr[idx], arr[idx - 1], graph, all)
       IN IF (isDescending /\ order >= 0) \/ (~isDescending /\ order < 0)
          THEN idx - 1
          ELSE runLength(arr, idx + 1, isDescending, graph, all)
Reverse(arr) == [i \in 1..Len(arr) |-> arr[Len(arr) + 1 - i]]
RECURSIVE searchPos(_, _, _, _, _, _)
searchPos(arr, pivot, left, right, graph, all) ==
  IF left >= right THEN left
  ELSE LET mid == left + ((right - left) \div 2)
       IN IF sortCompare(pivot, arr[mid], graph, all) < 0
          THEN searchPos(arr, pivot, left, mid, graph, all)
          ELSE searchPos(arr, pivot, mid + 1, right, graph, all)
RECURSIVE insertFrom(_, _, _, _)
insertFrom(arr, start, graph, all) ==
  IF start > Len(arr) THEN arr
  ELSE LET left == searchPos(arr, arr[start], 1, start, graph, all)
       IN insertFrom(Slice(arr, 1, left - 1) \o <<arr[start]>>
                       \o Slice(arr, left, start - 1) \o From(arr, start + 1),
                     start + 1, graph, all)
sortedComponentNames(names, graph, all) ==
  IF Len(names) < 2 THEN names
  ELSE LET isDescending == sortCompare(names[2], names[1], graph, all) < 0
           run == runLength(names, 3, isDescending, graph, all)
           made == IF isDescending
                   THEN Reverse(Slice(names, 1, run)) \o From(names, run + 1)
                   ELSE names
       IN insertFrom(made, run + 1, graph, all)

(* --------------------------- generated text --------------------------- *)

\* VIRT and RSLV (lines 71-72); a module identifier is a sequence of parts
VIRT == <<W("virtual:inline-svelte/")>>
RSLV == <<W("\\0")>> \o VIRT
\* the virtual path of a hash, VIRT + hash + ".js", and the same path as a
\* quoted string of the generated text
Virt(hash) == VIRT \o <<G(".js", hash)>>
VirtLit(hash) == G("virt", hash)
Local(hash) == G("Inline", hash)
Ns(hash) == G("__InlineNS", hash)
\* moduleScriptExportRE: a script tag with the single attribute module, then
\* text without '<', then the word export
hasModuleExports(rawMarkup) ==
  \E i \in 1..Len(rawMarkup) : \E j \in (i + 1)..Len(rawMarkup) :
    /\ rawMarkup[i][1] = "<script module>"
    /\ rawMarkup[j][1] = "export"
    /\ \A k \in (i + 1)..(j - 1) : rawMarkup[k][1] \notin LtKinds
\* lines 202-208 and 273-279: the binding of a new generated name
bindingFor(hash, rawMarkup) ==
  IF hasModuleExports(rawMarkup)
  THEN <<W("import"), W("*"), W("as"), Ns(hash), W("from"), VirtLit(hash), W(";"), NL,
         W("const"), Local(hash), W("="), W("Object.assign"), W("("), Ns(hash),
         W(".default"), W(","), Ns(hash), W(")"), W(";"), NL>>
  ELSE <<W("import"), Local(hash), W("from"), VirtLit(hash), W(";"), NL>>
\* import <name> from '<virt>';\n
importOf(name, hash) == <<W("import"), W(name), W("from"), VirtLit(hash), W(";"), NL>>
\* const <name> = <local>;\n
aliasOf(name, hash) == <<W("const"), W(name), W("="), Local(hash), W(";"), NL>>

\* registerModule without the lookup in hashToLocal: a faulty variant, against
\* which C1 is seen to depend on the lookup
registerAlways(acc, hash, resolved, rawMarkup) ==
  [acc EXCEPT !.hashToLocal = @ \cup {hash},
              !.writes = Append(@, [virt |-> Virt(hash), markup |-> resolved]),
              !.importsToAdd = @ \o bindingFor(hash, rawMarkup)]

\* lines 195-209 and 266-280: look the hash up in hashToLocal and, when it is
\* new, register it: hashToLocal, the cache write to attempt, importsToAdd
registerModule(acc, hash, resolved, rawMarkup) ==
  IF hash \in acc.hashToLocal THEN acc
  ELSE [acc EXCEPT !.hashToLocal = @ \cup {hash},
                   !.writes = Append(@, [virt |-> Virt(hash), markup |-> resolved]),
                   !.importsToAdd = @ \o bindingFor(hash, rawMarkup)]

(* -------------------------- shared components ------------------------- *)

\* [...allDeps].sort by the index in allGlobalNames
sortedDepsOf(allDeps, all) == SelectSeq(all, LAMBDA d : d \in allDeps)

\* lines 176-188: the script injected into a shared component
RECURSIVE componentScript(_, _, _, _)
componentScript(sortedDeps, compNames, componentInfo, globalVarDefs) ==
  IF sortedDeps = <<>> THEN <<>>
  ELSE LET depName == Head(sortedDeps)
           rest == componentScript(Tail(sortedDeps), compNames, componentInfo,
                                   globalVarDefs)
       IN IF InArr(compNames, depName)
          THEN (IF MapHas(componentInfo, depName)
                THEN importOf(depName, MapGet(componentInfo, depName)) ELSE <<>>)
                 \o rest
          ELSE (IF MapGet(globalVarDefs, depName) # <<>>
                THEN <<NL>> \o MapGet(globalVarDefs, depName) ELSE <<>>)
                 \o rest

\* one turn of the for loop of lines 170-214
componentStep(acc, compName, f) ==
  LET rawMarkup == MapGet(f.nameToMarkup, compName)
      allDeps == getTransitiveDependencies(<<compName>>, f.depGraph) \ {compName}
      scriptToInject ==
        componentScript(sortedDepsOf(allDeps, f.allGlobalNames),
                        f.globalComponentNames, acc.componentInfo, f.globalVarDefs)
      importCode == Join(f.importStatements, <<NL>>)
      markupWithImports == applySharedCode(rawMarkup, importCode)
      markupWithDeps == applySharedCode(markupWithImports, scriptToInject)
      hash == Hash(markupWithDeps)
      reg == registerModule(acc, hash, markupWithDeps, rawMarkup)
  IN [reg EXCEPT
        !.componentInfo = MapSet(@, compName, hash),
        !.globalImportsForTpl = @ \o importOf(compName, hash),
        !.hoistedCode = @ \o aliasOf(compName, hash),
        !.items = Append(@, [kind |-> "component", name |-> compName,
                             index |-> 0, end |-> 0, raw |-> rawMarkup,
                             inject |-> scriptToInject, imports |-> importCode,
                             resolved |-> markupWithDeps, hash |-> hash])]
RECURSIVE componentLoop(_, _, _)
componentLoop(acc, names, f) ==
  IF names = <<>> THEN acc
  ELSE componentLoop(componentStep(acc, Head(names), f), Tail(names), f)

\* tempFenceCode of lines 216-219
RECURSIVE removeMatches(_, _)
removeMatches(tempFenceCode, matches) ==
  IF matches = <<>> THEN tempFenceCode
  ELSE removeMatches(RemoveFirst(tempFenceCode, Head(matches).text), Tail(matches))
removeImports(s) == RemoveSpans(s, ImportMatches(s, 1), 1)

EmptyAcc ==
  [hashToLocal |-> {}, writes |-> <<>>, importsToAdd |-> <<>>,
   componentInfo |-> <<>>, globalImportsForTpl |-> <<>>, hoistedCode |-> <<>>,
   items |-> <<>>]
NoFenceInfo ==
  [fenceMatch |-> NoFence, fenceContent |-> <<>>, componentMatches |-> <<>>,
   globalComponentNames |-> <<>>, nonComponentCode |-> <<>>,
   globalVarDefs |-> <<>>, importStatements |-> <<>>, allGlobalNames |-> <<>>,
   nameToMarkup |-> <<>>, depGraph |-> <<>>, sorted |-> <<>>]

\* lines 97-166: what is read off the fence before the components are
\* processed
fenceInfo(code) ==
  LET fenceMatch == fenceExec(code)
      fenceContent == fenceMatch.content
      componentMatches == GlobalDefMatches(fenceContent, 1)
      globalComponentNames ==
        SetOf([k \in 1..Len(componentMatches) |-> componentMatches[k].name])
      nonComponentCode == Trim(RemoveSpans(fenceContent, componentMatches, 1))
      globalVarDefs == declLoop(nonComponentCode, 1, globalComponentNames, <<>>)
      importStatements ==
        MatchTexts(nonComponentCode, ImportMatches(nonComponentCode, 1))
      allGlobalNames == globalComponentNames \o MapKeys(globalVarDefs)
      nameToMarkup ==
        [k \in 1..Len(globalComponentNames) |->
           [name |-> globalComponentNames[k],
            def |-> componentMatches[
                      Max({j \in 1..Len(componentMatches) :
                             componentMatches[j].name = globalComponentNames[k]})
                    ].markup]]
      content(name) ==
        IF InArr(globalComponentNames, name) THEN MapGet(nameToMarkup, name)
        ELSE MapGet(globalVarDefs, name)
      depGraph ==
        [name \in Range(allGlobalNames) |->
           depsOf(name, content(name), allGlobalNames)]
  IN IF ~fenceMatch.found THEN NoFenceInfo
     ELSE [fenceMatch |-> fenceMatch, fenceContent |-> fenceContent,
           componentMatches |-> componentMatches,
           globalComponentNames |-> globalComponentNames,
           nonComponentCode |-> nonComponentCode,
           globalVarDefs |-> globalVarDefs,
           importStatements |-> importStatements,
           allGlobalNames |-> allGlobalNames,
           nameToMarkup |-> nameToMarkup, depGraph |-> depGraph,
           sorted |-> sortedComponentNames(globalComponentNames, depGraph,
                                           allGlobalNames)]

\* lines 96-222: the accumulators after the fence has been processed
processFence(f) ==
  IF ~f.fenceMatch.found THEN EmptyAcc
  ELSE LET start == [EmptyAcc EXCEPT
                       !.hoistedCode = Join(f.importStatements, <<NL>>) \o <<NL>>]
           acc == componentLoop(start, f.sorted, f)
           tempFenceCode == removeMatches(f.fenceContent, f.componentMatches)
       IN [acc EXCEPT !.hoistedCode = @ \o Trim(removeImports(tempFenceCode))]

(* ---------------------------- inline blocks --------------------------- *)

\* existingScriptContent (line 242): the text between the first script
\* opening tag of any kind and the first closing tag after it, empty when
\* there is no such pair
existingScriptContent(rawMarkup) ==
  LET S == {i \in 1..Len(rawMarkup) :
              /\ rawMarkup[i][1] \in ScriptOpenKinds
              /\ IndexOfKind(rawMarkup, "</script>", i + 1) # 0}
  IN IF S = {} THEN <<>>
     ELSE Slice(rawMarkup, Min(S) + 1,
                IndexOfKind(rawMarkup, "</script>", Min(S) + 1) - 1)
\* isDeclaredInScript (lines 250-252): let, const or var, white space, lazily
\* anything without '=' and ';', then the name as a word (the name is put
\* into the pattern unescaped, as in RefRE)
isDeclaredInScript(name, script) ==
  /\ name # "$s"
  /\ \E i \in 1..Len(script) : \E j \in (i + 1)..Len(script) :
       /\ script[i][1] \in Keywords
       /\ script[j] = W(name)
       /\ \A k \in (i + 1)..(j - 1) : script[k][1] \notin EqSemiKinds

\* lines 247-257: the declarations appended to the script of a block
RECURSIVE blockScript(_, _, _, _)
blockScript(sortedDeps, compNames, globalVarDefs, script) ==
  IF sortedDeps = <<>> THEN <<>>
  ELSE LET name == Head(sortedDeps)
           rest == blockScript(Tail(sortedDeps), compNames, globalVarDefs, script)
       IN IF InArr(compNames, name) THEN rest
          ELSE IF isDeclaredInScript(name, script) THEN rest
          ELSE IF MapGet(globalVarDefs, name) # <<>>
               THEN <<NL>> \o MapGet(globalVarDefs, name) \o rest
          ELSE rest

\* one turn of the while loop of lines 227-284 for a match outside the fence
blockStep(acc, m, f) ==
  LET rawMarkup == m.body
      directDeps == SelectSeq(f.allGlobalNames, LAMBDA n : RefRE(n, rawMarkup))
      allDeps == getTransitiveDependencies(directDeps, f.depGraph)
      scriptToInject ==
        acc.globalImportsForTpl
          \o blockScript(sortedDepsOf(allDeps, f.allGlobalNames),
                         f.globalComponentNames, f.globalVarDefs,
                         existingScriptContent(rawMarkup))
      fenceImports ==
        Join(MatchTexts(f.fenceContent, ImportMatches(f.fenceContent, 1)), <<NL>>)
      markupWithFenceCode == applySharedCode(rawMarkup, fenceImports)
      markupWithGlobals == applySharedCode(markupWithFenceCode, scriptToInject)
      hash == Hash(markupWithGlobals)
      reg == registerModule(acc, hash, markupWithGlobals, rawMarkup)
  IN [reg EXCEPT
        !.items = Append(@, [kind |-> "block", name |-> "",
                             index |-> m.index, end |-> m.end, raw |-> rawMarkup,
                             inject |-> scriptToInject, imports |-> fenceImports,
                             resolved |-> markupWithGlobals, hash |-> hash])]
inFence(m, fenceMatch) ==
  fenceMatch.found /\ m.index >= fenceMatch.index /\ m.index < fenceMatch.end
RECURSIVE blockLoop(_, _, _, _)
blockLoop(acc, code, from, f) ==
  LET m == tplExec(code, from)
  IN IF ~m.found THEN acc
     ELSE IF inFence(m, f.fenceMatch) THEN blockLoop(acc, code, m.end, f)
     ELSE blockLoop(blockStep(acc, m, f), code, m.end, f)

(* ------------------------------ transform ----------------------------- *)

\* isUserSource (line 18).  A file identifier is the sequence of its path
\* segments, the last one the extension.
UserExts == {".js", ".jsx", ".ts", ".tsx", ".cjs", ".cjsx", ".cts", ".ctsx"}
\* isUserSource without the test of the extension: a faulty variant, against
\* which C18 is seen to depend on that test
isUserSourceAnyExt(id) == \A i \in 1..Len(id) : id[i][1] # "/node_modules/"
isUserSource(id) ==
  /\ \A i \in 1..Len(id) : id[i][1] # "/node_modules/"
  /\ id # <<>> /\ id[Len(id)][1] \in UserExts

\* MagicString: the original text with the fence span overwritten by nothing
\* and each processed block overwritten by its local name
blockAt(items, p) ==
  {k \in 1..Len(items) : items[k].kind = "block" /\ items[k].index = p}
inBlock(items, p) ==
  \E k \in 1..Len(items) :
    items[k].kind = "block" /\ items[k].index < p /\ p < items[k].end
\* shown without the overwrite of the fence span: a faulty variant, against
\* which C6 is seen to depend on line 101
shownWithFence(code, items, fenceMatch) ==
  {p \in 1..Len(code) : blockAt(items, p) # {} \/ ~inBlock(items, p)}
\* the positions of the original text that still show in the output: a
\* block's first position stands for its local name
shown(code, items, fenceMatch) ==
  {p \in 1..Len(code) :
     \/ blockAt(items, p) # {}
     \/ /\ ~inBlock(items, p)
        /\ ~(fenceMatch.found /\ p >= fenceMatch.index /\ p < fenceMatch.end)}
editedText(code, items, fenceMatch) ==
  LET K == shown(code, items, fenceMatch)
      pos(i) == CHOOSE p \in K : Cardinality({q \in K : q <= p}) = i
  IN [i \in 1..Cardinality(K) |->
        IF blockAt(items, pos(i)) # {}
        THEN Local(items[CHOOSE k \in blockAt(items, pos(i)) : TRUE].hash)
        ELSE code[pos(i)]]

\* a transform whose two prepend calls (lines 288-289) are made in the other
\* order, so that the hoisted code comes before the generated bindings: a
\* faulty variant
transformedHoistedFirst(code, id) ==
  IF ~isUserSource(id)
  THEN [result |-> "undefined", input |-> code, id |-> id, code |-> <<>>,
        f |-> NoFenceInfo, acc |-> EmptyAcc]
  ELSE LET f == fenceInfo(code)
           acc == blockLoop(processFence(f), code, 1, f)
           edited ==
             f.fenceMatch.found \/ \E k \in 1..Len(acc.items) : acc.items[k].kind = "block"
       IN [result |-> IF edited THEN "code" ELSE "null",
           input |-> code, id |-> id,
           code |-> IF edited
                    THEN acc.hoistedCode \o <<NL>> \o acc.importsToAdd
                           \o editedText(code, acc.items, f.fenceMatch)
                    ELSE <<>>,
           f |-> f, acc |-> acc]
\* transform(code, id) without its writes to the cache: what it returns and
\* what it computed on the way.  result is "undefined" (line 81), "null"
\* (line 293) or "code".
transformed(code, id) ==
  IF ~isUserSource(id)
  THEN [result |-> "undefined", input |-> code, id |-> id, code |-> <<>>,
        f |-> NoFenceInfo, acc |-> EmptyAcc]
  ELSE LET f == fenceInfo(code)
           acc == blockLoop(processFence(f), code, 1, f)
           edited ==
             f.fenceMatch.found \/ \E k \in 1..Len(acc.items) : acc.items[k].kind = "block"
       IN [result |-> IF edited THEN "code" ELSE "null",
           input |-> code, id |-> id,
           code |-> IF edited
                    THEN acc.importsToAdd \o acc.hoistedCode \o <<NL>>
                           \o editedText(code, acc.items, f.fenceMatch)
                    ELSE <<>>,
           f |-> f, acc |-> acc]
\* a transform that writes the name of the file into the text it returns: a
\* faulty variant, against which C19 is seen to depend on the id going into
\* nothing but the test of line 81
transformStamped(code, id) ==
  LET plain == transformed(code, id)
      returned == [plain EXCEPT !.code = IF plain.result = "code"
                                         THEN <<id[Len(id) - 1]>> \o @ ELSE @]
  IN IF returned = returned THEN returned ELSE returned
\* (the comparison has the model checker put the value into its normal form
\* where it is computed, before its workers share it)
transform(code, id) ==
  LET returned == transformed(code, id)
  IN IF returned = returned THEN returned ELSE returned

\* a cache that starts afresh at every call of transform: a faulty variant,
\* against which C11 is seen to depend on the cache never losing an entry
firstWrite(writes, v) ==
  CHOOSE i \in DOMAIN writes :
    writes[i].virt = v /\ \A j \in 1..(i - 1) : writes[j].virt # v
lastWrite(writes, v) ==
  CHOOSE i \in DOMAIN writes :
    writes[i].virt = v /\ \A j \in (i + 1)..Len(writes) : writes[j].virt # v
applyWritesAfresh(c, writes) ==
  [v \in {writes[i].virt : i \in DOMAIN writes} |-> writes[firstWrite(writes, v)].markup]
\* cache.set(virt, markup) without the test of line 200: a faulty variant,
\* against which C13 is seen to depend on that test
applyWritesOver(c, writes) ==
  [v \in DOMAIN c \cup {writes[i].virt : i \in DOMAIN writes} |->
     IF \E i \in DOMAIN writes : writes[i].virt = v
     THEN writes[lastWrite(writes, v)].markup
     ELSE c[v]]
\* if (!cache.has(virt)) cache.set(virt, markup), for the writes in order
RECURSIVE applyWrites(_, _)
applyWrites(c, writes) ==
  IF writes = <<>> THEN c
  ELSE LET w == Head(writes)
       IN applyWrites(IF w.virt \in DOMAIN c THEN c ELSE (w.virt :> w.markup) @@ c,
                      Tail(writes))

(* ------------------------- the virtual modules ------------------------ *)

StartsWith(id, prefix) ==
  Len(id) >= Len(prefix) /\ SubSeq(id, 1, Len(prefix)) = prefix
Undefined == <<W("undefined")>>
\* resolveId without the slice of line 297: a faulty variant, against which
\* C15 is seen to depend on the prefix being replaced
resolveIdKeep(id) ==
  IF StartsWith(id, VIRT) THEN RSLV \o id ELSE <<W("undefined")>>
\* resolveId without the test of line 297: a faulty variant, against which
\* C16 is seen to depend on that test
resolveIdAny(id) ==
  RSLV \o (IF StartsWith(id, VIRT) THEN From(id, Len(VIRT) + 1) ELSE id)
\* resolveId (lines 296-298)
resolveId(id) ==
  IF StartsWith(id, VIRT) THEN RSLV \o From(id, Len(VIRT) + 1) ELSE Undefined
\* compile of svelte/compiler (line 1), as far as load depends on it: it
\* returns the module text of a markup, throws a CompileError for a markup
\* with a <script> left open, and a TypeError for a source that is no string
IsScriptOpen(t) == t[1] \in ScriptOpenKinds
IsScriptClose(t) == t[1] = "</script>"
compile(markup, filename) ==
  IF markup = Undefined THEN "TypeError"
  ELSE IF Len(SelectSeq(markup, IsScriptOpen)) # Len(SelectSeq(markup, IsScriptClose))
  THEN "CompileError"
  ELSE "js"
\* load (lines 300-309): the key it reads the cache under, the call of the
\* compiler it makes, if any, and how the call of load ends: with undefined
\* (line 301), with the module text, or with what the compiler throws
loadKey(id) == VIRT \o From(id, Len(RSLV) + 1)
\* load without the test of line 301: a faulty variant, against which C14
\* and C16 are seen to depend on that test
loadAny(c, id) ==
  LET key == VIRT \o From(id, Len(RSLV) + 1)
      markup == IF key \in DOMAIN c THEN c[key] ELSE <<W("undefined")>>
  IN [compiled |-> TRUE, key |-> key, markup |-> markup, filename |-> id,
      outcome |-> "js"]
cacheGet(c, key) == IF key \in DOMAIN c THEN c[key] ELSE Undefined
\* load with the call of the compiler in a try block that throws an error of
\* its own: a faulty variant, against which C17 is seen to depend on load
\* letting the error of the compiler through
loadWrapped(c, id) ==
  IF ~StartsWith(id, RSLV)
  THEN [compiled |-> FALSE, key |-> <<>>, markup |-> Undefined,
        filename |-> <<>>, outcome |-> "undefined"]
  ELSE LET markup == cacheGet(c, loadKey(id))
       IN [compiled |-> TRUE, key |-> loadKey(id), markup |-> markup,
           filename |-> id,
           outcome |-> IF compile(markup, id) = "js" THEN "js" ELSE "Error"]
load(c, id) ==
  IF ~StartsWith(id, RSLV)
  THEN [compiled |-> FALSE, key |-> <<>>, markup |-> Undefined,
        filename |-> <<>>, outcome |-> "undefined"]
  ELSE LET markup == cacheGet(c, loadKey(id))
       IN [compiled |-> TRUE, key |-> loadKey(id), markup |-> markup,
           filename |-> id, outcome |-> compile(markup, id)]

(* ------------------------------- inputs ------------------------------- *)

Tpl(tag, markup) == <<W(tag), W("BT")>> \o markup \o <<W("BT")>>
Stmt(tpl) == Txt(<<"const", "u", "=">>) \o tpl \o Txt(<<";", "NL">>)
Fence(lines) == Txt(<<"FS", "NL">>) \o Concat(lines) \o Txt(<<"FE", "NL">>)
Indent(line) == <<W("SP")>> \o line

\* markup of inline blocks
PlainMarkup == Txt(<<"<h1>", "0">>)
\* a markup the compiler rejects
OpenScriptMarkup == Txt(<<"<script>", "let", "t", "=", "1", ";">>)
ModuleMarkup(tag) ==
  Txt(<<tag, "NL", "export", "{", "t", "}", ";", "NL", "</script>", "<p>">>)
NoExportMarkup == Txt(<<"<script module>", "let", "t", "=", "1", ";", "</script>", "<p>">>)
PropsMarkup ==
  Txt(<<"<script>", "NL", "let", "{", "t", "}", "=", "u", "(", ")", ";", "NL",
        "</script>", "<h1>", "{", "t", "}", "</h1>">>)
ShadowMarkup(n) ==
  Txt(<<"<script>", "NL", "let", n, "=", "1", ";", "NL", "</script>",
        "<p>", "{", n, "}", "</p>">>)
ModuleThenShadowMarkup(n) ==
  Txt(<<"<script module>", "export", "{", "t", "}", ";", "</script>",
        "<script>", "let", n, "=", "1", ";", "</script>", "{", n, "}">>)
UseMarkup(n) == Txt(<<"<p>", "{", n, "}", "</p>">>)
UseComponentMarkup(c, n) == Txt(<<"<", c, "/>", "{", n, "}">>)
ModuleUseMarkup(tag, n) ==
  Txt(<<tag, "export", "{", "t", "}", ";", "</script>", "<p>", "{", n, "}">>)

\* lines of a definitions fence
ImportLine == Txt(<<"import", "{", "t", "}", "from", "'m'", ";", "NL">>)
ComponentLine(c, markup) ==
  Txt(<<"const", c, "=">>) \o Tpl("html", markup) \o Txt(<<";", "NL">>)
ValueLine(n) == Txt(<<"const", n, "=", "0", ";", "NL">>)
NoSemiLine(n) == Txt(<<"let", n, "=", "1", "NL">>)
ListLine(n, e) ==
  Txt(<<"const", n, "=", "[", "NL", "{", "t", ":", e, ",", "}", ",", "NL", "]", ";", "NL">>)
\* a value with a ';' and a line end inside braces; a value whose bracket is
\* never closed
BodyLine(n) ==
  Txt(<<"const", n, "=", "(", ")", "=>", "{", "NL", "t", ";", "NL", "}", ";", "NL">>)
OpenLine(n) == Txt(<<"const", n, "=", "[", "0", ";", "NL">>)
LetTplLine(c) == Txt(<<"let", c, "=">>) \o Tpl("html", Txt(<<"<p>">>)) \o Txt(<<";", "NL">>)

\* all arrays of at most n distinct elements of S
RECURSIVE Arrangements(_, _)
Arrangements(S, n) ==
  IF n = 0 THEN {<<>>}
  ELSE LET shorter == Arrangements(S, n - 1)
       IN shorter \cup {Append(a, e) : a \in shorter, e \in S}
Distinct(a) == \A i, j \in 1..Len(a) : i # j => a[i] # a[j]

MaxFenceLines == 3

\* files without a fence: two blocks
ModuleTags ==
  {"<script module>", "<script context=\"module\">", "<script lang=\"ts\" module>"}
FreeMarkups ==
  {PlainMarkup, NoExportMarkup, PropsMarkup, ShadowMarkup("x")}
    \cup {ModuleMarkup(t) : t \in ModuleTags}
FreeFiles ==
  {Stmt(Tpl(tag, m1)) \o Stmt(Tpl("html", m2)) :
     tag \in Tags, m1 \in FreeMarkups, m2 \in FreeMarkups}
    \cup {Txt(<<"const", "u", "=", "0", ";", "NL">>)}

\* files with a fence of imports and plain values, and one block
ValueLines ==
  {ImportLine, ValueLine("x"), Indent(ValueLine("x")), NoSemiLine("z"),
   ListLine("y", "x"), ValueLine("$s"), ComponentLine("A", PlainMarkup)}
ValueFences ==
  {Fence(a) : a \in {b \in Arrangements(ValueLines, MaxFenceLines) : Distinct(b)}}
ValueBlocks ==
  {UseComponentMarkup("A", "x"), UseMarkup("y"), UseMarkup("z"), UseMarkup("$s"),
   ShadowMarkup("x"), ShadowMarkup("A"), ModuleThenShadowMarkup("x"),
   PlainMarkup}
    \cup {ModuleUseMarkup(t, "x") : t \in ModuleTags}
ValueFiles ==
  {f \o Stmt(Tpl("html", m)) : f \in ValueFences, m \in ValueBlocks}

\* files with a fence of three components, every way they can mention each
\* other, and a value that mentions one of them
Others(c) == {"A", "B", "C"} \ {c}
RefsMarkup(c, refs) ==
  Txt(<<"<h1>", c, "</h1>">>)
    \o Concat([i \in 1..3 |->
                 IF <<"A", "B", "C">>[i] \in refs
                 THEN Txt(<<"<", <<"A", "B", "C">>[i], "/>">>) ELSE <<>>])
\* (the heading keeps components with equal references apart; a component's
\* own name in its markup is no dependency, line 154)
GraphFences ==
  {Fence(<<ComponentLine("A", RefsMarkup("A", ra)),
           ComponentLine("B", RefsMarkup("B", rb)),
           ComponentLine("C", RefsMarkup("C", rc))>> \o extra) :
     ra \in SUBSET Others("A"), rb \in SUBSET Others("B"),
     rc \in SUBSET Others("C"),
     extra \in {<<>>, <<ListLine("y", "B"), ImportLine>>}}
GraphFiles ==
  {f \o Stmt(Tpl("html", UseComponentMarkup("A", "y"))) : f \in GraphFences}

\* the rest: two fences, a fence no end delimiter closes, a template in the
\* fence that is no component declaration, indented declarations as in the
\* README, twin components, a block before the fence
OddFiles ==
  {Fence(<<ValueLine("x")>>) \o Stmt(Tpl("html", UseMarkup("x")))
     \o Fence(<<ValueLine("z")>>),
   Txt(<<"FS", "NL">>) \o ValueLine("x") \o Stmt(Tpl("html", UseMarkup("x"))),
   Fence(<<LetTplLine("D"), ValueLine("x")>>) \o Stmt(Tpl("html", UseMarkup("x"))),
   Fence(<<ListLine("y", "t") , Txt(<<"const", "z", "=", "[">>)
             \o Tpl("html", PlainMarkup) \o Txt(<<"]", ";", "NL">>)>>)
     \o Stmt(Tpl("html", UseMarkup("z"))),
   Fence(<<Indent(ImportLine), Indent(ValueLine("x")),
           Indent(ComponentLine("A", PlainMarkup))>>)
     \o Stmt(Tpl("html", UseComponentMarkup("A", "x"))),
   Fence(<<ComponentLine("A", PlainMarkup), ComponentLine("B", PlainMarkup)>>)
     \o Stmt(Tpl("html", PlainMarkup)),
   Fence(<<ComponentLine("A", PlainMarkup), ComponentLine("A", UseMarkup("t"))>>)
     \o Stmt(Tpl("html", UseComponentMarkup("A", "t"))),
   Stmt(Tpl("svelte", UseMarkup("x"))) \o Fence(<<ValueLine("x")>>)
     \o Stmt(Tpl("html", UseMarkup("x"))),
   Fence(<<BodyLine("y"), ValueLine("x")>>) \o Stmt(Tpl("html", UseMarkup("y"))),
   Fence(<<OpenLine("z"), ValueLine("x")>>) \o Stmt(Tpl("html", UseMarkup("x"))),
   Fence(<<ValueLine("x"), Txt(<<"var", "z", "=", "[", "1">>)>>)
     \o Stmt(Tpl("html", UseMarkup("z"))),
   Stmt(Tpl("html", Txt(<<"<p>">>) \o Fence(<<ValueLine("x")>>) \o Txt(<<"</p>">>))),
   Fence(<<>>),
   Fence(<<ImportLine>>),
   Fence(<<ImportLine>>) \o Stmt(Tpl("html", PlainMarkup))}

Files == FreeFiles \cup ValueFiles \cup GraphFiles \cup OddFiles

UserId == Txt(<<"/src/", "a", ".ts">>)

\* what the host may hand to the hooks of one long-lived plugin instance
HostFiles ==
  {Stmt(Tpl("html", PlainMarkup)),
   Stmt(Tpl("html", ModuleMarkup("<script module>"))),
   Fence(<<ImportLine, ValueLine("x"), ComponentLine("A", PlainMarkup)>>)
     \o Stmt(Tpl("html", UseComponentMarkup("A", "x"))),
   Txt(<<"const", "u", "=", "0", ";", "NL">>),
   Stmt(Tpl("html", TwinA)),
   Stmt(Tpl("html", TwinB)),
   Stmt(Tpl("html", OpenScriptMarkup)),
   Txt(<<"FS", "NL">>) \o ValueLine("x")
     \o Txt(<<"const", "u", "=", "html", "BT", "<p>", ";", "NL">>)}
HostIds ==
  {UserId, Txt(<<"/src/", "b", ".cjsx">>), Txt(<<"/src/", "a", ".svelte">>),
   Txt(<<"/node_modules/", "a", ".js">>)}
HostHashes == {Hash(PlainMarkup)}
ModuleIds ==
  {Virt(h) : h \in HostHashes} \cup {RSLV \o <<G(".js", h)>> : h \in HostHashes}
    \cup {UserId, VIRT, RSLV, VIRT \o Virt(Hash(PlainMarkup)),
          Txt(<<"/src/">>) \o Virt(Hash(PlainMarkup))}

\* markups and shared code handed to the Injector on its own
MaxMarkupLen == 3
MaxInjections == 2
MarkupToks ==
  {"<script>", "<script module>", "<script context=\"module\">",
   "<script lang=\"ts\" module>", "</script>", "<p>"}
RECURSIVE SeqsUpTo(_, _)
SeqsUpTo(S, n) ==
  IF n = 0 THEN {<<>>}
  ELSE LET shorter == SeqsUpTo(S, n - 1)
       IN shorter \cup {Append(a, e) : a \in shorter, e \in S}
Markups == {Txt(m) : m \in SeqsUpTo(MarkupToks, MaxMarkupLen)}
Codes ==
  {<<>>, Txt(<<"import", "{", "t", "}", "from", "'m'", ";">>),
   Txt(<<"const", "x", "=", "0", ";">>)}

\* dependency graphs and seed sets handed to the closure on its own
MaxNodes == 3
MaxEdges == 3
NodeArr == SubSeq(<<"A", "B", "C", "D", "x">>, 1, MaxNodes)
Nodes == Range(NodeArr)
ArrOf(S) == SelectSeq(NodeArr, LAMBDA n : n \in S)
EdgeCount(g) == Cardinality({e \in Nodes \X Nodes : InArr(g[e[1]], e[2])})
Graphs ==
  {g \in [Nodes -> {ArrOf(S) : S \in SUBSET Nodes}] : EdgeCount(g) <= MaxEdges}
SeedArrs == {ArrOf(S) : S \in SUBSET Nodes}

MaxCalls == 3

(* ---------------------------- state machine --------------------------- *)

\* cache: the plugin instance's cache; run: the last call of transform;
\* reply: the last answer of resolveId or load, and which call it was;
\* calls: hook calls so far;
\* emitted: the imports of virtual modules in the texts returned so far;
\* compiles: invocations of the compiler so far; again: the last call of
\* transform had the text of the call of transform before it, both with an
\* eligible id; outputs: what the calls of transform with an eligible id
\* were given and what they returned;
\* inj: an application of the Injector; walk: a run of the closure loop;
\* scan: a run of the declaration pass or of the block scan;
\* variant: an instance of the plugin of plugins/inline-component.ts
VARIABLES cache, run, reply, calls, emitted, compiles, again, outputs, inj, walk,
          scan, variant
vars ==
  <<cache, run, reply, calls, emitted, compiles, again, outputs, inj, walk, scan,
    variant>>

NoRun ==
  [result |-> "none", input |-> <<>>, id |-> <<>>, code |-> <<>>,
   f |-> NoFenceInfo, acc |-> EmptyAcc]
NoReply == [hook |-> "none", at |-> 0, id |-> <<>>, value |-> <<>>]
NoInj == [before |-> <<>>, code |-> <<>>, after |-> <<>>, n |-> 0]
NoVariant ==
  [cache |-> <<>>, run |-> [result |-> "none", code |-> <<>>, items |-> <<>>],
   writes |-> {}, reply |-> [hook |-> "none", id |-> <<>>, value |-> <<>>],
   calls |-> 0]
NoScan ==
  [loop |-> "none", s |-> <<>>, names |-> <<>>, fenceMatch |-> NoFence,
   index |-> 0, lastIndex |-> 1, done |-> FALSE]
NoWalk ==
  [graph |-> <<>>, seeds |-> <<>>, resolved |-> {}, queue |-> <<>>,
   returned |-> FALSE]

Init ==
  /\ cache = <<>>
  /\ run = NoRun
  /\ reply = NoReply
  /\ calls = 0
  /\ emitted = {}
  /\ compiles = 0
  /\ again = FALSE
  /\ outputs = {}
  /\ inj = NoInj
  /\ walk = NoWalk
  /\ scan = NoScan
  /\ variant = NoVariant

\* the imports of virtual modules in the text a call returns: the virtual
\* path of each (lines 197, 268) with the resolved markup of each block or
\* component that the import stands for
importedHashes(code) == {code[i][2] : i \in {j \in DOMAIN code : code[j][1] = "virt"}}
emittedBy(returned) ==
  {[virt |-> Virt(h), markup |-> returned.acc.items[k].resolved] :
     <<h, k>> \in {hk \in importedHashes(returned.code) \X DOMAIN returned.acc.items :
                     returned.acc.items[hk[2]].hash = hk[1]}}

\* A call transform(code, id): returned is what the call computes, and the
\* cache takes the writes of the call
Transform(code, id, returned) ==
  /\ calls < MaxCalls
  /\ run' = returned
  /\ cache' = applyWrites(cache, returned.acc.writes)
  /\ calls' = calls + 1
  /\ emitted' = emitted \cup emittedBy(returned)
  /\ again' = (isUserSource(id) /\ isUserSource(run.id) /\ run.input = code)
  /\ outputs' = IF isUserSource(id)
                THEN outputs \cup {[input |-> code, id |-> id,
                                    result |-> returned.result,
                                    code |-> returned.code]}
                ELSE outputs
  /\ UNCHANGED <<reply, compiles, inj, walk, scan, variant>>

\* the ids the host asks about: those of ModuleIds, the virtual paths of the
\* imports it has met in transformed files, and what resolveId makes of them
Requests ==
  ModuleIds \cup {e.virt : e \in emitted} \cup {resolveId(e.virt) : e \in emitted}

ResolveId ==
  /\ calls < MaxCalls
  /\ \E id \in Requests :
       reply' = [hook |-> "resolveId", at |-> calls + 1, id |-> id,
                 value |-> resolveId(id)]
  /\ calls' = calls + 1
  /\ UNCHANGED <<cache, run, emitted, compiles, again, outputs, inj, walk, scan, variant>>

\* load invokes the compiler at most once (line 304) and writes nothing
Load ==
  /\ calls < MaxCalls
  /\ \E id \in Requests :
       /\ reply' = [hook |-> "load", at |-> calls + 1, id |-> id,
                    value |-> load(cache, id)]
       /\ compiles' = IF load(cache, id).compiled THEN compiles + 1 ELSE compiles
  /\ calls' = calls + 1
  /\ UNCHANGED <<cache, run, emitted, again, outputs, inj, walk, scan, variant>>

Next ==
  \/ \E code \in HostFiles, id \in HostIds :
       Transform(code, id, transform(code, id))
  \/ ResolveId
  \/ Load
Spec == Init /\ [][Next]_vars

\* one call of transform on a fresh plugin instance, for every input file
TransformFile(code, id, returned) ==
  /\ calls = 0
  /\ run' = returned
  /\ cache' = applyWrites(cache, returned.acc.writes)
  /\ calls' = calls + 1
  /\ emitted' = emitted \cup emittedBy(returned)
  /\ again' = (isUserSource(id) /\ isUserSource(run.id) /\ run.input = code)
  /\ outputs' = IF isUserSource(id)
                THEN outputs \cup {[input |-> code, id |-> id,
                                    result |-> returned.result,
                                    code |-> returned.code]}
                ELSE outputs
  /\ UNCHANGED <<reply, compiles, inj, walk, scan, variant>>

NextFile == \E code \in Files : TransformFile(code, UserId, transform(code, UserId))
SpecFile == Init /\ [][NextFile]_vars

\* the Injector applied to a markup, and again to what it returned
InitInject ==
  /\ cache = <<>> /\ run = NoRun /\ reply = NoReply /\ calls = 0
  /\ emitted = {} /\ compiles = 0 /\ again = FALSE /\ outputs = {}
  /\ walk = NoWalk /\ scan = NoScan /\ variant = NoVariant
  /\ \E m \in Markups : inj = [before |-> m, code |-> <<>>, after |-> m, n |-> 0]
Inject ==
  /\ inj.n < MaxInjections
  /\ \E code \in Codes :
       inj' = [before |-> inj.after, code |-> code,
               after |-> applySharedCode(inj.after, code), n |-> inj.n + 1]
  /\ UNCHANGED <<cache, run, reply, calls, emitted, compiles, again, outputs, walk, scan, variant>>
NextInject == Inject
SpecInject == InitInject /\ [][NextInject]_vars

\* getTransitiveDependencies, one turn of its while loop at a time
InitDeps ==
  /\ cache = <<>> /\ run = NoRun /\ reply = NoReply /\ calls = 0
  /\ emitted = {} /\ compiles = 0 /\ again = FALSE /\ outputs = {}
  /\ inj = NoInj /\ scan = NoScan /\ variant = NoVariant
  /\ \E g \in Graphs, seeds \in SeedArrs :
       walk = [graph |-> g, seeds |-> seeds, resolved |-> {}, queue |-> seeds,
               returned |-> FALSE]
\* lines 40-51
LoopTurn ==
  /\ ~walk.returned
  /\ walk.queue # <<>>
  /\ LET st == ClosureStep([resolved |-> walk.resolved, queue |-> walk.queue],
                           walk.graph)
     IN walk' = [walk EXCEPT !.resolved = st.resolved, !.queue = st.queue]
  /\ UNCHANGED <<cache, run, reply, calls, emitted, compiles, again, outputs, inj, scan, variant>>
\* line 52
Return ==
  /\ ~walk.returned
  /\ walk.queue = <<>>
  /\ walk' = [walk EXCEPT !.returned = TRUE]
  /\ UNCHANGED <<cache, run, reply, calls, emitted, compiles, again, outputs, inj, scan, variant>>
NextDeps == LoopTurn \/ Return
\* the loop is sequential code: a turn that can be taken is taken
SpecDeps == InitDeps /\ [][NextDeps]_vars /\ WF_vars(NextDeps)

\* The two scans of transform that move a lastIndex, one turn at a time: the
\* declaration pass (lines 110-139) over a text of the fence and the names of
\* its components, and the block scan (lines 227-284) over a file; and the
\* closure of one name in a graph, as the comparator asks for it (lines
\* 161-164)
ScanLines ==
  {ValueLine("x"), NoSemiLine("z"), BodyLine("y"),
   Txt(<<"var", "NL", "z", "NL">>)}
ScanTexts == {Trim(Concat(a)) : a \in Arrangements(ScanLines, MaxFenceLines)}
TplTexts == HostFiles \cup OddFiles
InitLoops ==
  /\ cache = <<>> /\ run = NoRun /\ reply = NoReply /\ calls = 0
  /\ emitted = {} /\ compiles = 0 /\ again = FALSE /\ outputs = {}
  /\ inj = NoInj /\ variant = NoVariant
  /\ \/ /\ walk = NoWalk
        /\ \E s \in ScanTexts, names \in {<<>>, <<"x">>} :
             scan = [NoScan EXCEPT !.loop = "decl", !.s = s, !.names = names]
     \/ /\ walk = NoWalk
        /\ \E code \in TplTexts :
             scan = [NoScan EXCEPT !.loop = "tpl", !.s = code,
                                   !.fenceMatch = fenceExec(code)]
     \/ /\ scan = NoScan
        /\ \E g \in Graphs, n \in Nodes :
             walk = [graph |-> g, seeds |-> <<n>>, resolved |-> {},
                     queue |-> <<n>>, returned |-> FALSE]
\* one turn of the while loop of lines 110-139: exec from lastIndex, then
\* either the continue of line 112 or lastIndex = endIndex (line 138)
DeclTurn ==
  /\ scan.loop = "decl" /\ ~scan.done
  /\ \E declMatch \in {declExec(scan.s, scan.lastIndex)} :
       scan' =
         IF ~declMatch.found THEN [scan EXCEPT !.done = TRUE]
         ELSE IF InArr(scan.names, declMatch.name)
         THEN [scan EXCEPT !.index = declMatch.index, !.lastIndex = declMatch.end]
         ELSE [scan EXCEPT !.index = declMatch.index,
                           !.lastIndex = declEnd(scan.s, declMatch.index)]
  /\ UNCHANGED <<cache, run, reply, calls, emitted, compiles, again, outputs, inj, walk, variant>>
\* one turn of the while loop of lines 227-284: the lastIndex of tplRE is
\* the end of the match, whether the block is skipped (line 233) or replaced
TplTurn ==
  /\ scan.loop = "tpl" /\ ~scan.done
  /\ \E m \in {tplExec(scan.s, scan.lastIndex)} :
       scan' =
         IF ~m.found THEN [scan EXCEPT !.done = TRUE]
         ELSE [scan EXCEPT !.index = m.index, !.lastIndex = m.end]
  /\ UNCHANGED <<cache, run, reply, calls, emitted, compiles, again, outputs, inj, walk, variant>>
NextLoops == DeclTurn \/ TplTurn \/ LoopTurn \/ Return
\* the loops are sequential code: a turn that can be taken is taken
SpecLoops == InitLoops /\ [][NextLoops]_vars /\ WF_vars(NextLoops)

(* --------------- the variant plugins/inline-component.ts --------------- *)

\* line 43: the text of the first fence, trimmed, or the empty text
variantImports(code) == Trim(fenceExec(code).content)
\* lines 50-63: the blocks in the order of the scan, each with the key and
\* the value of its cache.set
RECURSIVE variantLoop(_, _, _)
variantLoop(code, from, imports) ==
  LET m == tplExec(code, from)
  IN IF ~m.found THEN <<>>
     ELSE <<[kind |-> "block", index |-> m.index, end |-> m.end, src |-> m.body,
             imports |-> imports, hash |-> Hash(m.body \o imports)]>>
            \o variantLoop(code, m.end, imports)
\* line 60, for each block in turn: what is prepended later stands first
RECURSIVE variantPrepended(_)
variantPrepended(items) ==
  IF items = <<>> THEN <<>>
  ELSE variantPrepended(Tail(items))
         \o <<W("import"), Local(Head(items).hash), W("from"),
              VirtLit(Head(items).hash), W(";"), NL>>
\* line 59, for each block in turn
RECURSIVE variantSet(_, _)
variantSet(c, items) ==
  IF items = <<>> THEN c
  ELSE variantSet((Virt(Head(items).hash) :>
                     [src |-> Head(items).src, imports |-> Head(items).imports]) @@ c,
                  Tail(items))
\* transform (lines 39-66) without its writes to the cache
variantTransform(code, id) ==
  IF ~isUserSource(id) THEN [result |-> "undefined", code |-> <<>>, items |-> <<>>]
  ELSE LET items == variantLoop(code, 1, variantImports(code))
       IN IF items = <<>> THEN [result |-> "null", code |-> <<>>, items |-> <<>>]
          ELSE [result |-> "code",
                code |-> variantPrepended(items) \o editedText(code, items, NoFence),
                items |-> items]
\* load (lines 72-84): the destructuring of an absent entry throws before
\* the compiler is called
variantLoad(c, id) ==
  IF ~StartsWith(id, RSLV)
  THEN [compiled |-> FALSE, outcome |-> "undefined", src |-> <<>>, imports |-> <<>>]
  ELSE IF loadKey(id) \notin DOMAIN c
  THEN [compiled |-> FALSE, outcome |-> "TypeError", src |-> <<>>, imports |-> <<>>]
  ELSE [compiled |-> TRUE, outcome |-> compile(c[loadKey(id)].src, id),
        src |-> c[loadKey(id)].src,
        imports |-> IF c[loadKey(id)].imports = <<>> THEN <<>>
                    ELSE c[loadKey(id)].imports \o <<NL>>]

\* two blocks of the same markup; a fence and a block; a block whose markup
\* ends in the text of that fence; one block; no block
VariantFiles ==
  {Stmt(Tpl("html", PlainMarkup)) \o Stmt(Tpl("svelte", PlainMarkup)),
   Fence(<<ImportLine>>) \o Stmt(Tpl("html", PlainMarkup)),
   Stmt(Tpl("html", PlainMarkup \o Trim(ImportLine))),
   Stmt(Tpl("html", PlainMarkup)),
   Txt(<<"const", "u", "=", "0", ";", "NL">>)}
VariantIds == {UserId, Txt(<<"/node_modules/", "a", ".js">>)}
InitVariant ==
  /\ cache = <<>> /\ run = NoRun /\ reply = NoReply /\ calls = 0
  /\ emitted = {} /\ compiles = 0 /\ again = FALSE /\ outputs = {}
  /\ inj = NoInj /\ walk = NoWalk /\ scan = NoScan
  /\ variant = NoVariant
TransformVariant(code, id, returned) ==
  /\ variant.calls < MaxCalls
  /\ variant' =
       [variant EXCEPT
          !.cache = variantSet(@, returned.items),
          !.run = returned,
          !.writes = @ \cup {[virt |-> Virt(returned.items[k].hash),
                              value |-> [src |-> returned.items[k].src,
                                         imports |-> returned.items[k].imports]] :
                               k \in DOMAIN returned.items},
          !.calls = @ + 1]
  /\ UNCHANGED <<cache, run, reply, calls, emitted, compiles, again, outputs, inj, walk, scan>>
LoadVariant ==
  /\ variant.calls < MaxCalls
  /\ \E id \in {resolveId(v) : v \in DOMAIN variant.cache} \cup {RSLV, UserId} :
       variant' =
         [variant EXCEPT
            !.reply = [hook |-> "load", id |-> id, value |-> variantLoad(variant.cache, id)],
            !.calls = @ + 1]
  /\ UNCHANGED <<cache, run, reply, calls, emitted, compiles, again, outputs, inj, walk, scan>>
NextVariant ==
  \/ \E code \in VariantFiles, id \in VariantIds :
       TransformVariant(code, id, variantTransform(code, id))
  \/ LoadVariant
SpecVariant == InitVariant /\ [][NextVariant]_vars

(* ------------------------------- claims ------------------------------- *)

Items == run.acc.items
ItemIds == 1..Len(Items)
Blocks == {k \in ItemIds : Items[k].kind = "block"}
Occurrences(s, sub) ==
  Cardinality({i \in 1..(Len(s) - Len(sub) + 1) : SubSeq(s, i, i + Len(sub) - 1) = sub})
\* the bindings of the generated name of a hash in the emitted text
Bindings(hash) ==
  Occurrences(run.code, <<W("import"), Local(hash), W("from")>>)
    + Occurrences(run.code, <<W("import"), W("*"), W("as"), Ns(hash), W("from")>>)
WritesOf(hash) ==
  Cardinality({w \in 1..Len(run.acc.writes) : run.acc.writes[w].virt = Virt(hash)})
SameHash(k) == {j \in ItemIds : Items[j].hash = Items[k].hash}

\* C1: within one call of transform, two processed items (inline blocks or
\* shared components) with identical resolved markup get the same generated
\* name; the emitted text binds that name exactly once (one import, or one
\* namespace import with its Object.assign line) and mentions it once more
\* for each item it stands for; the cache holds exactly one entry for its
\* virtual path, written once, with that markup.
C1_Dedup ==
  \A i \in ItemIds : \A j \in ItemIds :
    Items[i].resolved = Items[j].resolved =>
      /\ Items[i].hash = Items[j].hash
      /\ Bindings(Items[i].hash) = 1
      /\ Occurrences(run.code, <<Local(Items[i].hash)>>)
           = 1 + Cardinality(SameHash(i))
      /\ \A k \in {i, j} :
           Items[k].kind = "component" =>
             Contains(run.code, aliasOf(Items[k].name, Items[k].hash))
      /\ WritesOf(Items[i].hash) = 1
      /\ Virt(Items[i].hash) \in DOMAIN cache
      /\ cache[Virt(Items[i].hash)] = Items[i].resolved
\* two distinct items of one file have the same resolved markup
C1_Witness ==
  /\ run.result = "code"
  /\ \E i \in ItemIds : \E j \in ItemIds :
       i # j /\ Items[i].resolved = Items[j].resolved

\* the spellings of a module-context script tag
IsModuleTag(t) == t[1] \in ModuleTags
\* the script regions of a markup: an opening tag and the first closing tag
\* after it
ScriptRegions(markup) ==
  {r \in (1..Len(markup)) \X (1..Len(markup)) :
     /\ markup[r[1]][1] \in ScriptOpenKinds
     /\ r[2] = IndexOfKind(markup, "</script>", r[1] + 1)}
\* the markup's instance script declares the name
InstanceDeclares(markup, n) ==
  \E r \in ScriptRegions(markup) :
    /\ ~IsModuleTag(markup[r[1]])
    /\ \E j \in (r[1] + 1)..(r[2] - 2) :
         markup[j][1] \in Keywords /\ markup[j + 1] = W(n)
Mentions(markup, n) == \E j \in 1..Len(markup) : markup[j] = W(n)

\* C2: local shadowing wins: when the instance script of a block declares a
\* name that is also a shared definition (component or plain value), neither
\* the shared declaration text nor an import binding that name is injected
\* into the block.
C2_LocalShadowing ==
  \A k \in Blocks : \A n \in Range(run.f.allGlobalNames) :
    InstanceDeclares(Items[k].raw, n) =>
      /\ ~Contains(Items[k].inject, <<W("import"), W(n), W("from")>>)
      /\ MapHas(run.f.globalVarDefs, n) =>
           ~Contains(Items[k].inject, MapGet(run.f.globalVarDefs, n))

\* what C3 asks of the Injector: the code goes right after the first script
\* opening tag that is no module-context tag of either spelling, and a new
\* script region is prepended when there is none
InjectedAsClaimed(markup, code) ==
  LET S == {i \in 1..Len(markup) :
              markup[i][1] \in ScriptOpenKinds /\ ~IsModuleTag(markup[i])}
  IN IF S # {}
     THEN Slice(markup, 1, Min(S)) \o <<NL>> \o code \o <<NL>>
            \o From(markup, Min(S) + 1)
     ELSE Txt(<<"<script>", "NL">>) \o code \o Txt(<<"NL", "</script>", "NL">>)
            \o markup
\* C3: for every markup and every non-empty shared code, applySharedCode
\* puts the code right after the first script opening tag that is not a
\* module-context script, under both spellings of module context, never
\* inside a module-context script, and prepends a new script region when the
\* markup has no such tag.
C3_InjectAfterInstanceScript ==
  (inj.n > 0 /\ inj.code # <<>>) =>
    inj.after = InjectedAsClaimed(inj.before, inj.code)

\* the markup has a module-context script, of any spelling, that exports
ExportsNamed(markup) ==
  \E r \in ScriptRegions(markup) :
    /\ IsModuleTag(markup[r[1]])
    /\ \E j \in (r[1] + 1)..(r[2] - 1) : markup[j] = W("export")
NamespaceBinding(hash) ==
  <<W("import"), W("*"), W("as"), Ns(hash), W("from"), VirtLit(hash), W(";"), NL,
    W("const"), Local(hash), W("="), W("Object.assign"), W("("), Ns(hash),
    W(".default"), W(","), Ns(hash), W(")"), W(";"), NL>>
DefaultBinding(hash) ==
  <<W("import"), Local(hash), W("from"), VirtLit(hash), W(";"), NL>>
\* C4: a block whose module-context script exports named values, under any
\* spelling of the tag, is bound by a namespace import merged onto the
\* default export with Object.assign; a block without such exports is bound
\* by a plain default import.
C4_NamespaceBinding ==
  \A k \in Blocks :
    IF ExportsNamed(Items[k].raw)
    THEN Contains(run.code, NamespaceBinding(Items[k].hash))
    ELSE Contains(run.code, DefaultBinding(Items[k].hash))

\* the names reachable from a set of names along the edges of a graph, as
\* the least set that holds them and is closed under the edges
RECURSIVE ReachFrom(_, _)
ReachFrom(S, graph) ==
  LET T == S \cup {d \in DOMAIN graph : \E n \in S : InArr(GraphGet(graph, n), d)}
  IN IF T = S THEN S ELSE ReachFrom(T, graph)
DependsOn(x, y, graph) == y \in ReachFrom(Range(GraphGet(graph, x)), graph)
Acyclic(graph) == \A n \in DOMAIN graph : ~DependsOn(n, n, graph)
\* the order in which the shared components were processed
Processed ==
  SelectSeq([k \in ItemIds |-> Items[k]], LAMBDA it : it.kind = "component")
ProcessedAt(n) ==
  Min({k \in 1..Len(Processed) : Processed[k].name = n})

\* C5: with an acyclic dependency graph, a shared component is processed
\* after every shared component it transitively depends on, whatever the
\* declaration order.
C5_TopologicalOrder ==
  Acyclic(run.f.depGraph) =>
    \A x \in Range(run.f.globalComponentNames) :
      \A y \in Range(run.f.globalComponentNames) :
        DependsOn(x, y, run.f.depGraph) => ProcessedAt(y) < ProcessedAt(x)

CountIn(s, k) == CountKind(s, k, 1, Len(s))
\* tokens of the input outside the span of the first fence
OutsideFence(code, fenceMatch) ==
  Slice(code, 1, fenceMatch.index - 1) \o From(code, fenceMatch.end)
HasImport(s) == ImportMatches(s, 1) # <<>>

InBackticks(s, i) == CountKind(s, "BT", 1, i - 1) % 2 = 1
FenceDecls(s) ==
  {i \in 1..(Len(s) - 1) :
     /\ s[i][1] \in Keywords
     /\ s[i + 1][1] \in WordKinds
     /\ ~InBackticks(s, i)
     /\ \/ LineStart(s, i)
        \/ (KindAt(s, i - 1) = "SP" /\ LineStart(s, i - 1))}
IsComponentDecl(s, i) ==
  /\ s[i][1] = "const"
  /\ KindAt(s, i + 2) = "="
  /\ KindAt(s, i + 3) \in Tags
  /\ KindAt(s, i + 4) = "BT"
\* the statement of a declaration: up to the first ';' or line end outside
\* all brackets
StatementEnd(s, i) ==
  LET Outer(j) ==
        /\ DepthBefore(s, "{", "}", i, j) = 0
        /\ DepthBefore(s, "[", "]", i, j) = 0
        /\ DepthBefore(s, "(", ")", i, j) = 0
      S == {j \in i..Len(s) : s[j][1] \in {";", "NL"} /\ Outer(j)}
  IN IF S = {} THEN Len(s)
     ELSE IF s[Min(S)][1] = ";" THEN Min(S) ELSE Min(S) - 1
StatementText(s, i) == Slice(s, i, StatementEnd(s, i))
\* any script of the markup declares the name
Declares(markup, n) ==
  \E r \in ScriptRegions(markup) :
    \E j \in (r[1] + 1)..(r[2] - 2) :
      markup[j][1] \in Keywords /\ markup[j + 1] = W(n)

\* C7: every variable and every component declared in the fence, at any
\* position and indentation, is a shared definition, and every block that
\* mentions it (and does not declare it) has it in its script: the
\* declaration for a variable, an import for a component.
C7_EveryDeclarationShared ==
  \A i \in FenceDecls(run.f.fenceContent) :
    LET n == run.f.fenceContent[i + 1][1]
    IN /\ InArr(run.f.allGlobalNames, n)
       /\ \A k \in Blocks :
            (Mentions(Items[k].raw, n) /\ ~Declares(Items[k].raw, n)) =>
              IF IsComponentDecl(run.f.fenceContent, i)
              THEN Contains(Items[k].resolved, <<W("import"), W(n), W("from")>>)
              ELSE Contains(Items[k].resolved,
                            <<run.f.fenceContent[i], W(n), W("=")>>)

\* C8: the emitted text holds no tagged template of a configured tag.
C8_NoTemplateLeft ==
  run.result = "code" => \A i \in 1..Len(run.code) : ~TplAt(run.code, i)

\* C9: a block that mentions a shared plain value and does not declare the
\* name gets the statement that declares the value, verbatim, wherever in
\* the fence the value is declared.
C9_OrderIndependence ==
  \A i \in FenceDecls(run.f.fenceContent) :
    LET n == run.f.fenceContent[i + 1][1]
    IN ~IsComponentDecl(run.f.fenceContent, i) =>
         \A k \in Blocks :
           (Mentions(Items[k].raw, n) /\ ~Declares(Items[k].raw, n)) =>
             Contains(Items[k].resolved, StatementText(run.f.fenceContent, i))

\* C10: for every graph (cycles and self-loops included) and every seed
\* set, getTransitiveDependencies returns, and what it returns is exactly the
\* set of names reachable from the seeds, the seeds included.
C10_Closure ==
  /\ [](walk.returned =>
          /\ walk.resolved = ReachFrom(Range(walk.seeds), walk.graph)
          /\ getTransitiveDependencies(walk.seeds, walk.graph) = walk.resolved)
  /\ <>walk.returned
\* the closure of A in the cycle A -> B -> A came back as {A, B}
C10_Witness ==
  /\ walk.returned
  /\ walk.seeds = <<"A">>
  /\ walk.graph["A"] = <<"B">> /\ walk.graph["B"] = <<"A">>
  /\ walk.resolved = {"A", "B"}
(* --------------------- the cache and the two hooks --------------------- *)

EmittedPaths == {e.virt : e \in emitted}

\* C11: every virtual path in an import of a text that a completed call of
\* transform returned has a cache entry, in every later state; no call of
\* transform, resolveId or load removes an entry; so load(resolveId(path))
\* finds the markup stored under the path however much later it is called.
C11_EmittedStaysLoadable ==
  /\ [](/\ \A h \in importedHashes(run.code) : Virt(h) \in EmittedPaths
        /\ \A p \in EmittedPaths :
             /\ p \in DOMAIN cache
             /\ load(cache, resolveId(p)).compiled
             /\ load(cache, resolveId(p)).markup = cache[p])
  /\ [][DOMAIN cache \subseteq DOMAIN cache']_vars
\* load answers for a path whose import an earlier call of transform
\* emitted, after a later call of transform on another file that has none
\* for that path
C11_Witness ==
  /\ reply.hook = "load"
  /\ run.result = "code"
  /\ \E e \in emitted :
       /\ e \notin emittedBy(run)
       /\ reply.id = resolveId(e.virt)
       /\ reply.value.markup = e.markup

\* C12: whatever the order in which the files are transformed, the markup the
\* cache holds under a virtual path is the resolved markup of every block or
\* component, of every transformed file, whose emitted import names that
\* path: one hash stands for one resolved text, so that what load returns for
\* the path does not depend on which file was transformed first.
C12_OnePathOneMarkup ==
  \A e \in emitted : e.virt \in DOMAIN cache /\ cache[e.virt] = e.markup

\* a step that is a call of resolveId or load, a step that is a call of
\* transform
HookStep == reply'.at = calls + 1
TransformStep == calls' = calls + 1 /\ reply' = reply

\* C13: the value of a cache entry never changes after its first insertion: a
\* later call of transform that computes a virtual path already present
\* leaves the entry as it is; resolveId and load never write to the cache.
C13_CacheWriteOnce ==
  [][/\ \A k \in DOMAIN cache : k \in DOMAIN cache' /\ cache'[k] = cache[k]
     /\ HookStep => cache' = cache]_vars
\* a call of transform has computed a virtual path that was present with
\* another markup, and a call of load has followed
C13_Witness ==
  /\ reply.hook = "load"
  /\ \E i \in DOMAIN run.acc.writes :
       /\ run.acc.writes[i].virt \in DOMAIN cache
       /\ cache[run.acc.writes[i].virt] # run.acc.writes[i].markup

LoadStep == HookStep /\ reply'.hook = "load"
ResolveIdStep == HookStep /\ reply'.hook = "resolveId"
Ours(id) == StartsWith(id, RSLV)
\* the part of a resolved id after the resolved prefix
Rest(id) == SubSeq(id, Len(RSLV) + 1, Len(id))

\* C14: the compiler is invoked only inside load: exactly once in a call of
\* load on an id with the resolved prefix, with the markup the cache holds for
\* that id and with the id as the filename; a call of transform or of
\* resolveId never invokes it.
C14_CompileOnlyInLoad ==
  [][/\ compiles' # compiles => LoadStep /\ Ours(reply'.id)
     /\ LoadStep /\ Ours(reply'.id) =>
          /\ compiles' = compiles + 1
          /\ reply'.value.compiled
          /\ reply'.value.filename = reply'.id
          /\ VIRT \o Rest(reply'.id) \in DOMAIN cache =>
               reply'.value.markup = cache[VIRT \o Rest(reply'.id)]
     /\ TransformStep \/ ResolveIdStep => compiles' = compiles]_vars
\* load has invoked the compiler with the markup of an emitted import, after
\* a call of transform and a call of resolveId
C14_Witness ==
  /\ reply.hook = "load" /\ reply.at = 3
  /\ compiles = 1
  /\ \E e \in emitted :
       /\ Ours(reply.id)
       /\ reply.value.filename = resolveId(e.virt)
       /\ reply.value.markup = e.markup

\* C15: for every requested path p with the virtual prefix, load applied to
\* resolveId(p) reads the cache under exactly p, and under no other key:
\* replacing the prefix and putting it back is the identity on such paths.
C15_RoundTrip ==
  /\ [](\A p \in Requests :
          StartsWith(p, VIRT) =>
            LET loaded == load(cache, resolveId(p))
            IN /\ Ours(resolveId(p))
               /\ loaded.key = p
               /\ loaded.markup = cacheGet(cache, p))
  /\ [][/\ reply.hook = "resolveId" /\ StartsWith(reply.id, VIRT)
        /\ LoadStep /\ reply'.id = reply.value
        => reply'.value.key = reply.id]_vars
\* load has been called on what resolveId made of the path of an emitted
\* import and has read the entry of that path
C15_Witness ==
  /\ reply.hook = "load" /\ reply.at > 1
  /\ reply.value.key \in EmittedPaths
  /\ reply.id = resolveId(reply.value.key)
  /\ reply.value.markup = cache[reply.value.key]

\* C16: resolveId declines (returns undefined for) every path that does not
\* begin with the virtual prefix; load declines every id that does not begin
\* with the resolved prefix, a virtual path that was not resolved included;
\* in both cases the compiler is not invoked and the cache is unchanged.
C16_Decline ==
  [][/\ ResolveIdStep /\ ~StartsWith(reply'.id, VIRT) =>
          reply'.value = Undefined /\ compiles' = compiles /\ cache' = cache
     /\ LoadStep /\ ~StartsWith(reply'.id, RSLV) =>
          /\ reply'.value.outcome = "undefined"
          /\ ~reply'.value.compiled
          /\ compiles' = compiles /\ cache' = cache]_vars
\* load has declined the unresolved virtual path of an emitted import that
\* has a cache entry, as the third call made of the plugin
C16_Witness ==
  /\ reply.hook = "load" /\ reply.at = 3
  /\ reply.id \in EmittedPaths \cap DOMAIN cache
  /\ reply.value.outcome = "undefined"
  /\ compiles = 0

Rejected(markup) == compile(markup, <<>>) = "CompileError"

\* C17: a block whose markup the compiler rejects does not make transform
\* fail: the block is registered and replaced like any other.  The failure
\* appears only in a call of load that invokes the compiler on that markup,
\* and load ends with the very error of the compiler; the failing call
\* leaves the cache as it was, and a later call of load on the same id
\* invokes the compiler again, with the same markup.
C17_ErrorAtLoadOnly ==
  /\ [](\A k \in DOMAIN run.acc.items :
          Rejected(run.acc.items[k].resolved) =>
            /\ run.result = "code"
            /\ Contains(run.code, <<Local(run.acc.items[k].hash)>>)
            /\ ~Contains(run.code, run.acc.items[k].raw)
            /\ Virt(run.acc.items[k].hash) \in DOMAIN cache)
  /\ [][/\ HookStep /\ reply'.hook = "load" /\ Ours(reply'.id)
          /\ Rejected(cacheGet(cache, VIRT \o Rest(reply'.id)))
          => /\ reply'.value.outcome = "CompileError"
             /\ reply'.value.markup = cache[VIRT \o Rest(reply'.id)]
             /\ compiles' = compiles + 1
             /\ cache' = cache
        /\ HookStep /\ reply'.hook = "load"
          /\ reply'.value.outcome = "CompileError"
          => reply'.value.compiled /\ Rejected(reply'.value.markup)
        /\ reply.hook = "load" /\ reply.value.outcome = "CompileError"
          /\ LoadStep /\ reply'.id = reply.id
          => /\ reply'.value.markup = reply.value.markup
             /\ reply'.value.outcome = "CompileError"
             /\ compiles' = compiles + 1]_vars
\* load has failed twice on the id of a rejected markup that transform had
\* registered: the compiler was invoked both times with that markup
C17_Witness ==
  /\ reply.hook = "load" /\ reply.at = 3
  /\ reply.value.outcome = "CompileError"
  /\ compiles = 2
  /\ \E e \in emitted : reply.value.markup = e.markup /\ reply.value.key = e.virt

(* -------------------------- what transform returns -------------------------- *)

\* the text has a fence: the fence start with a fence end after it; the text
\* has an inline block: a tag, a backtick and a later backtick
HasFence(code) ==
  \E i \in DOMAIN code :
    code[i][1] = "FS" /\ \E j \in (i + 1)..Len(code) : code[j][1] = "FE"
HasBlock(code) ==
  \E i \in DOMAIN code :
    /\ code[i][1] \in Tags
    /\ \E b \in (i + 1)..Len(code) :
         /\ code[b][1] = "BT"
         /\ \A w \in (i + 1)..(b - 1) : IsWS(code[w])
         /\ \E c \in (b + 1)..Len(code) : code[c][1] = "BT"
EligibleWith(id, exts) ==
  /\ \A i \in DOMAIN id : id[i][1] # "/node_modules/"
  /\ id # <<>> /\ id[Len(id)][1] \in exts
\* a call of transform returns unchanged exactly when the id is not eligible
\* with the extensions exts or the text has neither a fence nor a block, and
\* then leaves the cache alone; in every other case it returns an edited
\* text (with its source map, line 290)
UnchangedIff(exts) ==
  TransformStep =>
    /\ run'.result \in {"undefined", "null", "code"}
    /\ run'.result \in {"undefined", "null"}
         <=> \/ ~EligibleWith(run'.id, exts)
             \/ ~HasFence(run'.input) /\ ~HasBlock(run'.input)
    /\ run'.result \in {"undefined", "null"} => cache' = cache
    /\ run'.result = "code" => run'.code # run'.input

C19_OutputOfTextOnly ==
  /\ [](\A a \in outputs : \A b \in outputs :
          a.input = b.input => a.result = b.result /\ a.code = b.code)
  /\ [][TransformStep /\ again' =>
          /\ run'.result = run.result
          /\ run'.code = run.code
          /\ cache' = cache]_vars
\* a text with blocks has been transformed twice under two eligible ids, with
\* calls of resolveId or load in between
C19_Witness ==
  /\ again /\ run.result = "code"
  /\ reply.at = 2 /\ calls = 3
  /\ cache # <<>>
  /\ \E a \in outputs : a.input = run.input /\ a.id # run.id

(* ------------------- imports between shared components ------------------- *)

Components == {k \in ItemIds : Items[k].kind = "component"}

\* C20: for every shared component C and every other shared component D that
\* C transitively depends on, the resolved markup of C has an import of D
\* from the virtual path of D, whatever the order of the declarations in the
\* fence and whatever the dependency graph, cyclic ones included.
C20_DependencyImports ==
  \A c \in Components : \A d \in Components :
    /\ Items[c].name # Items[d].name
    /\ DependsOn(Items[c].name, Items[d].name, run.f.depGraph)
    => Contains(Items[c].resolved, importOf(Items[d].name, Items[d].hash))

(* ------------------------- the injected shared code ------------------------- *)

SharedNames == Range(run.f.allGlobalNames)
SharedComponents == Range(run.f.globalComponentNames)
SharedValues == SharedNames \ SharedComponents
FirstAt(s, sub) ==
  LET S == {i \in 1..(Len(s) - Len(sub) + 1) : SubSeq(s, i, i + Len(sub) - 1) = sub}
  IN IF S = {} THEN 0 ELSE Min(S)
\* where the script injected into item k declares or imports the shared
\* name n (0: nowhere)
InjectedAt(k, n) ==
  IF n \in SharedComponents
  THEN FirstAt(Items[k].inject, <<W("import"), W(n), W("from")>>)
  ELSE FirstAt(Items[k].inject, MapGet(run.f.globalVarDefs, n))

\* C21: in the shared code injected into a shared component or an inline
\* block, an injected plain value X that mentions an injected shared
\* definition Y comes after the declaration or import of Y, wherever the two
\* were declared in the fence; and every shared definition that an injected
\* plain value transitively depends on is injected or imported as well
\* (unless the markup declares the name itself).
C21_InjectedInDependencyOrder ==
  \A k \in ItemIds : \A x \in SharedValues : \A y \in SharedNames \ {x} :
    InjectedAt(k, x) # 0 =>
      /\ Mentions(MapGet(run.f.globalVarDefs, x), y) /\ InjectedAt(k, y) # 0
           => InjectedAt(k, y) < InjectedAt(k, x)
      /\ DependsOn(x, y, run.f.depGraph) /\ ~Declares(Items[k].raw, y)
           => InjectedAt(k, y) # 0

\* the shared names a markup depends on: those it mentions and those they
\* transitively depend on
UsedBy(markup) ==
  ReachFrom({n \in SharedNames : Mentions(markup, n)}, run.f.depGraph)
\* the names an import statement binds
BoundBy(statement) ==
  {statement[i][1] : i \in DOMAIN statement} \cap (WordKinds \ {"import", "from"})
ImportStatements == Range(run.f.importStatements)

\* C22: the shared code injected into an inline block holds only imports of
\* the shared components the block depends on and declarations of the shared
\* plain values it depends on: a shared component, a shared value or a fence
\* import the block does not reference is not injected, so that a block that
\* references nothing of the fence has the resolved markup (and with it the
\* hash and the generated name) it has in the file without the fence.
C22_OnlyWhatTheBlockUses ==
  \A k \in Blocks :
    /\ \A n \in SharedNames \ UsedBy(Items[k].raw) : InjectedAt(k, n) = 0
    /\ \A st \in ImportStatements :
         (\A n \in BoundBy(st) :
            /\ ~Mentions(Items[k].raw, n)
            /\ \A v \in UsedBy(Items[k].raw) \cap SharedValues :
                 ~Mentions(MapGet(run.f.globalVarDefs, v), n))
         => ~Contains(Items[k].resolved, st)
    /\ (/\ UsedBy(Items[k].raw) = {}
        /\ \A st \in ImportStatements : \A n \in BoundBy(st) :
             ~Mentions(Items[k].raw, n))
       => /\ Items[k].resolved = Items[k].raw
          /\ Items[k].hash = Hash(Items[k].raw)

(* ---------------------- the declarations of the fence ---------------------- *)

\* the declarations that start a line of the text s, outside templates
LineDecls(s) ==
  {i \in 1..(Len(s) - 1) :
     /\ LineStart(s, i)
     /\ s[i][1] \in Keywords
     /\ s[i + 1][1] \in WordKinds
     /\ ~InBackticks(s, i)}
PlainDecls(s) == {i \in LineDecls(s) : ~IsComponentDecl(s, i)}
InnerDecls(def) == LineDecls(def) \ {1}

\* C23: each declaration that starts a line of the fence and is no component
\* declaration has its own entry in the map of plain definitions, holding
\* the text of that declaration alone; each component declaration that
\* starts a line has its own component entry; no declared name is without an
\* entry, no entry holds another declaration, and no name is both a
\* component and a plain definition.
C23_OneEntryPerDeclaration ==
  LET fence == run.f.fenceContent
  IN /\ \A i \in LineDecls(fence) :
          IF IsComponentDecl(fence, i)
          THEN /\ InArr(run.f.globalComponentNames, fence[i + 1][1])
               /\ MapHas(run.f.nameToMarkup, fence[i + 1][1])
          ELSE /\ MapHas(run.f.globalVarDefs, fence[i + 1][1])
               /\ SubSeq(fence, i, i + 1)
                    = Slice(MapGet(run.f.globalVarDefs, fence[i + 1][1]), 1, 2)
     /\ \A e \in DOMAIN run.f.globalVarDefs :
          InnerDecls(run.f.globalVarDefs[e].def) = {}
     /\ \A e \in DOMAIN run.f.globalVarDefs :
          ~InArr(run.f.globalComponentNames, run.f.globalVarDefs[e].name)

\* the text s from i has as many opening as closing delimiters of each kind
\* before j
Level(s, i, j) ==
  LET part == Slice(s, i, j - 1)
      n(k) == Len(SelectSeq(part, LAMBDA t : t[1] = k))
  IN n("{") = n("}") /\ n("[") = n("]") /\ n("(") = n(")")
\* where C24 has the declaration that starts at i end (inclusive)
ClaimedEnd(s, i) ==
  LET semis == {j \in i..Len(s) : s[j][1] = ";" /\ Level(s, i, j)}
      lineEnds == {j \in i..Len(s) : s[j][1] = "NL"}
  IN IF semis # {} THEN Min(semis)
     ELSE IF lineEnds # {} THEN Min(lineEnds) - 1
     ELSE Len(s)
ClaimedText(s, i) == Trim(Slice(s, i, ClaimedEnd(s, i)))
DeclOf(s, n) ==
  {i \in 1..(Len(s) - 1) :
     LineStart(s, i) /\ s[i][1] \in Keywords /\ s[i + 1][1] = n}

\* C24: the text extracted for a plain declaration of the fence runs from the
\* keyword of the declaration through the first ';' at depth zero of braces,
\* brackets and parentheses, whatever line ends and ';' lie inside nested
\* delimiters; with no such ';' before the end of the text, it ends at the
\* next line end after the start of the declaration, or at the end of the
\* text.  This holds of every entry of the map of plain definitions and of
\* the first plain declaration of the text.
C24_ExtractedText ==
  LET s == run.f.nonComponentCode
      defs == run.f.globalVarDefs
      first == {i \in 1..(Len(s) - 1) :
                  /\ DeclOf(s, s[i + 1][1]) = {i}
                  /\ s[i + 1][1] \in WordKinds
                  /\ ~InArr(run.f.globalComponentNames, s[i + 1][1])
                  /\ \A j \in 1..(i - 1) : ~(LineStart(s, j) /\ s[j][1] \in Keywords)}
  IN /\ \A e \in DOMAIN defs :
          \E i \in DeclOf(s, defs[e].name) : defs[e].def = ClaimedText(s, i)
     /\ \A i \in first : MapGet(defs, s[i + 1][1]) = ClaimedText(s, i)
\* a definition with a ';' and a line end inside braces was extracted whole,
\* and one whose bracket is never closed was cut at the line end
C24_Witness ==
  \E e \in DOMAIN run.f.globalVarDefs :
    LET def == run.f.globalVarDefs[e].def
    IN /\ MapHas(run.f.globalVarDefs, "x")
       /\ \/ Contains(def, Txt(<<"{", "NL", "t", ";", "NL", "}", ";">>))
          \/ def = Txt(<<"const", "z", "=", "[", "0", ";">>)

\* C25: every loop of transform ends. Each turn of the declaration pass and
\* of the block scan finds its match at or after the scan position and
\* leaves the scan position strictly after the start of that match (also
\* when the end of the declaration is the newline fallback, and when the
\* declaration is skipped as a component), so that the pass ends; and the
\* closure of a name ends on every graph, cyclic ones included.
ScanAdvances ==
  (scan' # scan /\ ~scan'.done) =>
    /\ scan'.index >= scan.lastIndex
    /\ scan'.lastIndex > scan'.index
    /\ scan'.lastIndex <= Len(scan.s) + 1
C25_Terminates ==
  /\ [][ScanAdvances]_vars
  /\ <>(IF scan.loop = "none" THEN walk.returned ELSE scan.done)
\* a declaration pass that has ended after it took the newline fallback on
\* a declaration that is not the first of the text
C25_Witness ==
  /\ scan.loop = "decl" /\ scan.done
  /\ scan.index > 1
  /\ scanEnd(scan.s, scan.index) = 0
  /\ scan.lastIndex = IndexOfKind(scan.s, "NL", scan.index)

\* C26: the text transform returns is the generated bindings, then the
\* hoisted code, then the rewritten text. The lines that name a virtual path
\* or call Object.assign are exactly the first lines of the text (A); every
\* use of a generated name comes after a binding of that name (B); every
\* component of the fence has exactly one alias in the prefix (C); and in the
\* hoisted code the imports of the fence come before every alias and the
\* rest of the fence after every alias (D).
SameLine(s, i, j) ==
  \A k \in (IF i < j THEN i ELSE j)..((IF i < j THEN j ELSE i) - 1) : s[k] # NL
GeneratedLine(s, i) ==
  \E j \in DOMAIN s : s[j][1] \in {"virt", "Object.assign"} /\ SameLine(s, i, j)
ImportLineAt(s, i) == \E j \in DOMAIN s : s[j] = W("import") /\ SameLine(s, i, j)
BindsAt(s, j) == j > 1 /\ s[j][1] = "Inline" /\ s[j - 1] \in {W("import"), W("const")}
AliasAt(s, i) ==
  /\ i + 3 <= Len(s)
  /\ s[i] = W("const") /\ s[i + 2] = W("=") /\ s[i + 3][1] = "Inline"
BindingsLen == Len(run.acc.importsToAdd)
PrefixLen == Len(run.acc.importsToAdd) + Len(run.acc.hoistedCode) + 1
C26_PrefixOrdered ==
  run.result = "code" =>
    LET s == run.code
    IN /\ \A j \in DOMAIN s : GeneratedLine(s, j) <=> j <= BindingsLen
       /\ \A i \in DOMAIN s :
            (s[i][1] = "Inline" /\ ~BindsAt(s, i)) =>
              \E j \in 1..(i - 1) : BindsAt(s, j) /\ s[j] = s[i]
       /\ \A n \in Range(run.f.globalComponentNames) :
            Cardinality({i \in 1..PrefixLen : AliasAt(s, i) /\ s[i + 1] = W(n)}) = 1
       /\ \A a \in (BindingsLen + 1)..PrefixLen :
            AliasAt(s, a) =>
              \A i \in (BindingsLen + 1)..PrefixLen :
                IF ImportLineAt(s, i) THEN i < a
                ELSE (s[i] # NL /\ ~\E b \in (i - 5)..i : b >= 1 /\ AliasAt(s, b))
                       => i > a
\* a returned text with a binding through Object.assign, an import of the
\* fence, an alias and a plain declaration of the fence
C26_Witness ==
  /\ run.result = "code"
  /\ \E j \in DOMAIN run.code : run.code[j][1] = "Object.assign"
  /\ \E a \in 1..PrefixLen : AliasAt(run.code, a)
  /\ run.f.importStatements # <<>>
  /\ run.f.globalVarDefs # <<>>

\* C27: the fence imports and then the dependency code are injected into the
\* markup of every block and of every shared component without a script
\* region being duplicated. When both codes are empty the resolved markup is
\* the raw markup; otherwise the resolved markup has as many script opening
\* tags as the raw markup when the raw markup has a script that is no
\* module-context script, one more when it has none, and the codes that are
\* not empty lie between one script opening tag and the closing tag after it.
ScriptOpens(markup) == {i \in 1..Len(markup) : markup[i][1] \in ScriptOpenKinds}
HasInstanceScript(markup) == \E i \in ScriptOpens(markup) : ~IsModuleTag(markup[i])
OccursIn(v, c, lo, hi) ==
  \E a \in lo..(hi - Len(c) + 1) : SubSeq(v, a, a + Len(c) - 1) = c
RegionEnd(v, p) ==
  IF IndexOfKind(v, "</script>", p + 1) = 0 THEN Len(v) + 1
  ELSE IndexOfKind(v, "</script>", p + 1)
InjectedOnce(raw, imports, inject, resolved) ==
  IF imports = <<>> /\ inject = <<>> THEN resolved = raw
  ELSE /\ Cardinality(ScriptOpens(resolved)) =
            Cardinality(ScriptOpens(raw)) + (IF HasInstanceScript(raw) THEN 0 ELSE 1)
       /\ \E p \in ScriptOpens(resolved) :
            /\ imports # <<>> => OccursIn(resolved, imports, p + 1, RegionEnd(resolved, p) - 1)
            /\ inject # <<>> => OccursIn(resolved, inject, p + 1, RegionEnd(resolved, p) - 1)
C27_InjectedOnce ==
  \A k \in ItemIds :
    InjectedOnce(Items[k].raw, Items[k].imports, Items[k].inject, Items[k].resolved)

\* C28: the spans of the text that transform overwrites are pairwise
\* disjoint: no block that is replaced in place overlaps the span of the
\* fence, whether it starts inside the fence or starts before it and ends
\* inside or after it, and no two replaced blocks overlap.
Disjoint(a, b) == a.end <= b.index \/ b.end <= a.index
C28_EditsDisjoint ==
  /\ \A k \in Blocks :
       run.f.fenceMatch.found => Disjoint(Items[k], run.f.fenceMatch)
  /\ \A k \in Blocks : \A l \in Blocks \ {k} : Disjoint(Items[k], Items[l])

\* C29: whenever load has invoked the compiler, the markup it handed over is
\* the markup an earlier transform stored in the cache under the virtual path
\* of the id; for an id with the resolved prefix and no cache entry the
\* compiler is not invoked with an absent markup.
C29_CompileStoredMarkupOnly ==
  (reply.hook = "load" /\ reply.value.compiled) =>
    /\ reply.value.key \in DOMAIN cache
    /\ reply.value.markup = cache[reply.value.key]
    /\ reply.value.markup # Undefined

\* C30: in the variant, any two writes to one cache key, from one file or
\* from several, carry the same value of markup and imports, so that what a
\* load of the key returns is what every write to it stored; and the text
\* returned for a file binds the generated name of each block exactly once,
\* also when two blocks have the same markup.
VariantBindings(code, hash) ==
  {i \in 2..Len(code) : code[i] = Local(hash) /\ code[i - 1] = W("import")}
C30_VariantWritesAgree ==
  /\ \A w1 \in variant.writes : \A w2 \in variant.writes :
       w1.virt = w2.virt => w1.value = w2.value
  /\ (variant.reply.hook = "load" /\ variant.reply.value.compiled) =>
       \A w \in variant.writes :
         w.virt = loadKey(variant.reply.id) =>
           /\ w.value.src = variant.reply.value.src
           /\ w.value.imports = Trim(variant.reply.value.imports)
  /\ \A k \in DOMAIN variant.run.items :
       Cardinality(VariantBindings(variant.run.code, variant.run.items[k].hash)) = 1
====
